---- MODULE Spec2Model ----
(***************************************************************************)
(* A model of the orbiter of starling (src/starling/src/orbiter.rs): the   *)
(* propagator chain of one Orbiter, its fuel inventory, and the operations *)
(* Orbiter::new, Orbiter::propagate_to and Orbiter::impulsive_burn, over   *)
(* the planetary tree of src/starling/src/scenario.rs; and of the driver:  *)
(* simulate (scenario.rs) on a map of orbiters.                            *)
(*                                                                         *)
(* Time is Nanotime, an integer.  Velocities and delta-v are integers in   *)
(* units of exhaust_velocity * ln 2, so that the rocket equation           *)
(* ve * ln(m0 / m1) and its inverse m0 / exp(dv / ve) are exact: a burn of *)
(* k units divides the mass by 2^k.  Masses are in grams (the inventory    *)
(* counts grams of LiquidFuel).  f32 rounding is not modelled.             *)
(*                                                                         *)
(* propagator.rs, orbits.rs and inventory.rs are not among the source      *)
(* files: Propagator, SparseOrbit and Inventory are modelled from the      *)
(* specification (sections 3, 4.1, 4.2) and from how orbiter.rs uses them. *)
(***************************************************************************)
EXTENDS Integers, Sequences, FiniteSets, TLC

VARIABLES
    props,  \* Orbiter.props: the propagator chain, first to last
    fuel,   \* vehicle.inventory.count(LiquidFuel), in grams
    added,  \* the kilograms of fuel add_fuel has been called with so far
    pc,     \* "idle"; "loop" inside propagate_to's loop; "done" as a call returns
    call    \* the call in progress or returning: its arguments and result

vars == <<props, fuel, added, pc, call>>

\* The driver: the map of orbiters and a call of simulate on it
VARIABLES
    orbiters,  \* HashMap<EntityId, OrbitalSpacecraftEntity>: id -> orbiter
    sim        \* the call of simulate in progress or returning

driver_vars == <<orbiters, sim>>

\* The game loop: the Universe (its orbital_vehicles are `orbiters`), a
\* call of on_sim_ticks on it and a call of on_game_tick
VARIABLES
    universe,  \* Universe: stamp, ticks, landing_sites, next_entity_id
    run,       \* the call of Universe::on_sim_ticks in progress or returning
    game       \* the call of GameState::on_game_tick in progress or returning

game_vars == <<universe, run, game>>

\* A function applied to an input: PlanetarySystem::lookup,
\* lookup_ta_from_ma, the sizing of a layout tree
VARIABLES
    fn  \* [op, args, ret, done]: the function, its input, and its result once applied


(***************************************************************************)
(* Bounds of the model.                                                    *)
(***************************************************************************)
\* stamps passed to the operations are 0..MaxTime
MaxTime == 1
\* calls are made on chains of at most MaxChain propagators (a call of
\* propagate_to may leave a chain of up to MaxChain + max_iters)
MaxChain == 3
\* orbit positions are angles 0..MaxPos, wrapped
MaxPos == 1
\* add_fuel is called with MaxFuelKg kilograms, and adds no more than
\* MaxFuelKg kilograms in all
MaxFuelKg == 300

(***************************************************************************)
(* Constants of the program.                                               *)
(***************************************************************************)
max_iters == 10
dry_mass == 300
GramsPerKg == 1000

\* Option<T>: None is the empty sequence, Some(x) a sequence of one
None == << >>
Some(x) == <<x>>
Unwrap(o) == o[1]

\* the latest time an event of the model is found at
TimeCap == MaxTime + 2
Times == 0..TimeCap

(***************************************************************************)
(* PlanetarySystem: the root 0 with one subsystem 1; id 2 names no body.   *)
(***************************************************************************)
RootId == 0
Subsystems(id) == IF id = 0 THEN <<1>> ELSE << >>
EntityIds == 0..2

\* the state of subsystem `id`'s orbit around its parent at `stamp`
\* (orbit.pv(stamp)): a planet moving one position per time unit
SubsystemPV(id, stamp) == [pos |-> (id + stamp) % (MaxPos + 1), vel |-> 1]

PVZero == [pos |-> 0, vel |-> 0]
PVAdd(a, b) == [pos |-> (a.pos + b.pos) % (MaxPos + 1), vel |-> a.vel + b.vel]

RECURSIVE lookup_inner(_, _, _, _, _)
\* PlanetarySystem::lookup_inner on the subtree `self`: Some of
\* [pv, parent, system] of body `id`, or None; `i` scans self.subsystems
RECURSIVE lookup_subsystems(_, _, _, _, _)
lookup_subsystems(self, i, id, stamp, wrt) ==
    IF i > Len(Subsystems(self)) THEN None
    ELSE LET pl == Subsystems(self)[i]
             r == lookup_inner(pl, id, stamp, PVAdd(wrt, SubsystemPV(pl, stamp)), Some(self))
         IN IF r # None THEN r ELSE lookup_subsystems(self, i + 1, id, stamp, wrt)

lookup_inner(self, id, stamp, wrt, parent_id) ==
    IF self = id THEN Some([pv |-> wrt, parent |-> parent_id, system |-> self])
    ELSE lookup_subsystems(self, 1, id, stamp, wrt)

lookup(id, stamp) == lookup_inner(RootId, id, stamp, PVZero, None)

(***************************************************************************)
(* SparseOrbit: a conic as [epoch, pos, vel]; pos is the angle at epoch    *)
(* and vel the angular rate.                                               *)
(***************************************************************************)
\* SparseOrbit::pv_universal / pv: the state at `stamp`
orbit_pv(orbit, stamp) ==
    [pos |-> (orbit.pos + orbit.vel * (stamp - orbit.epoch)) % (MaxPos + 1),
     vel |-> orbit.vel]

\* SparseOrbit::from_pv: None for a degenerate state (no angular momentum)
from_pv(pv, stamp) ==
    IF pv.vel = 0 THEN None
    ELSE Some([epoch |-> stamp, pos |-> pv.pos, vel |-> pv.vel])

GlobalOrbit(parent, orbit) == [parent |-> parent, orbit |-> orbit]

(***************************************************************************)
(* HorizonState and Propagator.                                            *)
(***************************************************************************)
NoEvent == <<"none", 0>>
Continuing(end) == [kind |-> "Continuing", end |-> end, ev |-> NoEvent]
Indefinite == [kind |-> "Indefinite", end |-> 0, ev |-> NoEvent]
Terminating(end, ev) == [kind |-> "Terminating", end |-> end, ev |-> ev]
Transition(end, ev) == [kind |-> "Transition", end |-> end, ev |-> ev]

Collide(id) == <<"Collide", id>>
Encounter(id) == <<"Encounter", id>>
Escape(id) == <<"Escape", id>>
NumericalError == <<"NumericalError", 0>>

\* Propagator::new(orbit, stamp)
Propagator_new(gorbit, stamp) ==
    [parent |-> gorbit.parent, orbit |-> gorbit.orbit, start |-> stamp,
     horizon |-> Continuing(stamp)]

\* Propagator::end: the time of the event that ends the segment, if found
end(p) ==
    IF p.horizon.kind \in {"Terminating", "Transition"}
    THEN Some(p.horizon.end) ELSE None

unwrap_or(o, d) == IF o = None THEN d ELSE Unwrap(o)

\* Propagator::is_active: start <= stamp, and stamp before the end if any
is_active(p, stamp) ==
    /\ p.start <= stamp
    /\ (end(p) = None \/ stamp < Unwrap(end(p)))

\* Propagator::pv_universal
pv_universal(p, stamp) == Some(orbit_pv(p.orbit, stamp))

\* the bodies propagate_to hands to finish_or_compute_until: the
\* subsystems of the parent's system (orbiter.rs: pl.subsystems)
BodiesOf(id) == {Subsystems(id)[i] : i \in 1..Len(Subsystems(id))}

\* Propagator::finish_or_compute_until(t, bodies): the horizons the event
\* search may leave on `p`, each with whether the call returned Ok.  A
\* final horizon is kept; a Continuing one computed past t is kept; else the
\* search ends in an event at or after the time computed so far, or is
\* computed up to t or beyond, or fails.
FinishOutcomes(p, t, bodies) ==
    IF p.horizon.kind # "Continuing" \/ p.horizon.end > t
    THEN {[ok |-> TRUE, horizon |-> p.horizon]}
    ELSE LET from == p.horizon.end
             when == {x \in Times : from <= x /\ x <= t + 1}
         IN  {[ok |-> FALSE, horizon |-> p.horizon]}
             \cup {[ok |-> TRUE, horizon |-> Continuing(x)] : x \in {t, t + 1}}
             \cup {[ok |-> TRUE, horizon |-> Indefinite]}
             \cup {[ok |-> TRUE, horizon |-> Terminating(x, Collide(p.parent))] : x \in when}
             \cup {[ok |-> TRUE, horizon |-> Terminating(x, NumericalError)] : x \in when}
             \cup {[ok |-> TRUE, horizon |-> Transition(x, Escape(p.parent))] : x \in when}
             \cup {[ok |-> TRUE, horizon |-> Transition(x, Encounter(b))] :
                       x \in when, b \in bodies}

\* the frame a Transition leads to: the encountered body, or the parent of
\* the body escaped from; None if it cannot be resolved
TransitionTarget(p) ==
    LET ev == p.horizon.ev
    IN  IF ev[1] = "Encounter"
        THEN (IF lookup(ev[2], p.horizon.end) = None THEN None ELSE Some(ev[2]))
        ELSE IF ev[1] = "Escape"
        THEN (IF lookup(ev[2], p.horizon.end) = None THEN None
              ELSE Unwrap(lookup(ev[2], p.horizon.end)).parent)
        ELSE None

\* Propagator::next_prop(planets) of a finished Transition: [ok, next] with
\* next = None when the target cannot be resolved, and ok = FALSE when the
\* state in the new frame is degenerate
next_prop(p) ==
    LET target == TransitionTarget(p)
        at == p.horizon.end
        pv == orbit_pv(p.orbit, at)
        body == IF p.horizon.ev[1] = "Encounter" THEN p.horizon.ev[2] ELSE p.parent
        bpv == SubsystemPV(body, at)
        rel == IF p.horizon.ev[1] = "Encounter"
               THEN [pos |-> (pv.pos - bpv.pos) % (MaxPos + 1), vel |-> pv.vel - bpv.vel]
               ELSE PVAdd(pv, bpv)
        orbit == from_pv(rel, at)
    IN  IF target = None THEN [ok |-> TRUE, next |-> None]
        ELSE IF orbit = None THEN [ok |-> FALSE, next |-> None]
        ELSE [ok |-> TRUE,
              next |-> Some(Propagator_new(GlobalOrbit(Unwrap(target), Unwrap(orbit)), at))]

(***************************************************************************)
(* Inventory and the rocket equation.                                      *)
(***************************************************************************)
Abs(x) == IF x < 0 THEN -x ELSE x
Pow2(k) == IF k = 0 THEN 1 ELSE IF k = 1 THEN 2 ELSE IF k = 2 THEN 4 ELSE 8

\* Inventory::take: removes up to n of the item
take(count, n) == IF n >= count THEN 0 ELSE count - n

\* Inventory::add: adds n of the item
add(count, n) == count + n

\* Orbiter::mass, in grams
mass(f) == dry_mass * GramsPerKg + f

\* dv.length() > self.remaining_dv(), remaining_dv = ve * ln(mass / dry_mass):
\* with dv = k * ve * ln 2 this is 2^k > mass / dry_mass
exceeds_remaining_dv(f, dv) == Pow2(Abs(dv)) * dry_mass * GramsPerKg > mass(f)

\* (spent_fuel * 1000.0).round() as u64, where spent_fuel is the fuel mass
\* minus (mass_after_maneuver - dry_mass) and mass_after_maneuver is
\* mass / exp(dv / ve) = mass / 2^k: mass * (2^k - 1) / 2^k grams, rounded
\* to the nearest, halves away from zero
spent_fuel_grams(f, dv) ==
    LET d == Pow2(Abs(dv))
    IN  (2 * mass(f) * (d - 1) + d) \div (2 * d)

(***************************************************************************)
(* Orbiter.                                                                *)
(***************************************************************************)
RECURSIVE find_active(_, _, _)
\* self.props.iter().find(|p| p.is_active(stamp)), scanning from index i
find_active(ps, i, stamp) ==
    IF i > Len(ps) THEN None
    ELSE IF is_active(ps[i], stamp) THEN Some(ps[i])
    ELSE find_active(ps, i + 1, stamp)

\* Orbiter::propagator_at
propagator_at(ps, stamp) == find_active(ps, 1, stamp)

\* Orbiter::pvl: the state of the orbiter in its parent's frame
pvl(ps, stamp) ==
    IF propagator_at(ps, stamp) = None THEN None
    ELSE Some(orbit_pv(Unwrap(propagator_at(ps, stamp)).orbit, stamp))

\* faulty variant of burn_orbit: takes the first propagator of the chain
\* for the one active at stamp
burn_orbit_first(ps, stamp, dv) ==
    LET prop == IF propagator_at(ps, stamp) = None THEN None ELSE Some(ps[1])
    IN  IF prop = None THEN None
        ELSE LET pv0 == pv_universal(Unwrap(prop), stamp)
                 pv == [pos |-> Unwrap(pv0).pos, vel |-> Unwrap(pv0).vel + dv]
                 orbit == from_pv(pv, stamp)
             IN  IF orbit = None THEN None
                 ELSE Some(GlobalOrbit(Unwrap(prop).parent, Unwrap(orbit)))

\* faulty variant of burn_orbit: builds the new orbit at the epoch the
\* active propagator started at, not at stamp
burn_orbit_old_epoch(ps, stamp, dv) ==
    LET prop == propagator_at(ps, stamp)
    IN  IF prop = None THEN None
        ELSE LET pv0 == pv_universal(Unwrap(prop), stamp)
                 pv == [pos |-> Unwrap(pv0).pos, vel |-> Unwrap(pv0).vel + dv]
                 orbit == from_pv(pv, Unwrap(prop).start)
             IN  IF orbit = None THEN None
                 ELSE Some(GlobalOrbit(Unwrap(prop).parent, Unwrap(orbit)))

\* the orbit a burn leaves the orbiter on (the block that computes `orbit`
\* in impulsive_burn); None when a `?` returns early
burn_orbit(ps, stamp, dv) ==
    LET prop == propagator_at(ps, stamp)
    IN  IF prop = None THEN None
        ELSE LET pv0 == pv_universal(Unwrap(prop), stamp)
             IN  IF pv0 = None THEN None
                 ELSE LET pv == [pos |-> Unwrap(pv0).pos, vel |-> Unwrap(pv0).vel + dv]
                          orbit == from_pv(pv, stamp)
                      IN  IF orbit = None THEN None
                          ELSE Some(GlobalOrbit(Unwrap(prop).parent, Unwrap(orbit)))

\* faulty variant of impulsive_burn: pushes the new propagator without
\* clearing the chain
impulsive_burn_keeps_chain(ps, f, stamp, dv) ==
    IF exceeds_remaining_dv(f, dv)
    THEN [ret |-> "None", props |-> ps, fuel |-> f]
    ELSE LET taken == take(f, spent_fuel_grams(f, dv))
             orbit == burn_orbit(ps, stamp, dv)
         IN  IF orbit = None
             THEN [ret |-> "None", props |-> ps, fuel |-> taken]
             ELSE [ret |-> "Some",
                   props |-> Append(ps, Propagator_new(Unwrap(orbit), stamp)),
                   fuel |-> taken]

\* faulty variant of impulsive_burn: clears the chain before it looks for
\* the active propagator
impulsive_burn_clears_first(ps, f, stamp, dv) ==
    IF exceeds_remaining_dv(f, dv)
    THEN [ret |-> "None", props |-> ps, fuel |-> f]
    ELSE LET taken == take(f, spent_fuel_grams(f, dv))
             orbit == burn_orbit(ps, stamp, dv)
         IN  IF orbit = None
             THEN [ret |-> "None", props |-> << >>, fuel |-> taken]
             ELSE [ret |-> "Some",
                   props |-> <<Propagator_new(Unwrap(orbit), stamp)>>,
                   fuel |-> taken]

\* faulty variant of impulsive_burn: no check of the remaining delta-v
impulsive_burn_unchecked(ps, f, stamp, dv) ==
    LET taken == take(f, spent_fuel_grams(f, dv))
        orbit == burn_orbit(ps, stamp, dv)
    IN  IF orbit = None
        THEN [ret |-> "None", props |-> ps, fuel |-> taken]
        ELSE [ret |-> "Some",
              props |-> <<Propagator_new(Unwrap(orbit), stamp)>>,
              fuel |-> taken]

\* Orbiter::impulsive_burn(stamp, dv): the result and the orbiter after it
impulsive_burn(ps, f, stamp, dv) ==
    IF exceeds_remaining_dv(f, dv)
    THEN [ret |-> "None", props |-> ps, fuel |-> f]
    ELSE LET taken == take(f, spent_fuel_grams(f, dv))
             orbit == burn_orbit(ps, stamp, dv)
         IN  IF orbit = None
             THEN [ret |-> "None", props |-> ps, fuel |-> taken]
             ELSE [ret |-> "Some",
                   props |-> <<Propagator_new(Unwrap(orbit), stamp)>>,
                   fuel |-> taken]

RECURSIVE prune_inclusive(_, _)
\* faulty variant of prune: also removes a propagator that ends at stamp
prune_inclusive(ps, stamp) ==
    IF Len(ps) > 1 /\ unwrap_or(end(ps[1]), stamp + 1) <= stamp
    THEN prune_inclusive(Tail(ps), stamp)
    ELSE ps

RECURSIVE prune(_, _)
\* while self.props.len() > 1 && self.props[0].end().unwrap_or(stamp) < stamp
\*     { self.props.remove(0); }
prune(ps, stamp) ==
    IF Len(ps) > 1 /\ unwrap_or(end(ps[1]), stamp) < stamp
    THEN prune(Tail(ps), stamp)
    ELSE ps

\* faulty variant of numerical_error_prop: the clone keeps its start
numerical_error_prop_keeps_start(prop, at) ==
    [prop EXCEPT !.horizon = Terminating(at, NumericalError)]

\* the propagator pushed when next_prop fails: a clone of the last one,
\* starting at its end and terminating there in NumericalError
numerical_error_prop(prop, at) ==
    [prop EXCEPT !.start = at, !.horizon = Terminating(at, NumericalError)]

SetLast(ps, p) == [ps EXCEPT ![Len(ps)] = p]

\* faulty variant of after_finish: a finished Transition returns Ok like a
\* Terminating horizon, and no successor is appended
after_finish_no_chain(ps, t) ==
    LET h == ps[Len(ps)].horizon
    IN  IF h.kind \in {"Indefinite", "Terminating", "Transition"}
        THEN [props |-> ps, ret |-> "Ok"]
        ELSE IF h.end > t THEN [props |-> ps, ret |-> "Ok"]
        ELSE [props |-> ps, ret |-> "continue"]

\* what one iteration of the loop does after finish_or_compute_until left
\* horizon h on the last propagator: the chain, and "continue" or the
\* value returned
after_finish(ps, t) ==
    LET prop == ps[Len(ps)]
        h == prop.horizon
        np == next_prop(prop)
    IN  IF h.kind \in {"Indefinite", "Terminating"} THEN [props |-> ps, ret |-> "Ok"]
        ELSE IF h.end > t THEN [props |-> ps, ret |-> "Ok"]
        ELSE IF h.kind # "Transition" THEN [props |-> ps, ret |-> "continue"]
        ELSE IF ~np.ok
             THEN [props |-> Append(ps, numerical_error_prop(prop, h.end)), ret |-> "Ok"]
        ELSE IF np.next = None THEN [props |-> ps, ret |-> "Ok"]
        ELSE [props |-> Append(ps, Unwrap(np.next)), ret |-> "continue"]

\* faulty variant of propagate_iter: a failed lookup of the parent flags
\* the chain with a NumericalError propagator
propagate_iter_flags_lookup(ps, stamp, t) ==
    IF Len(ps) = 0 THEN {[props |-> ps, ret |-> "Lookup"]}
    ELSE LET prop == ps[Len(ps)]
             pl == lookup(prop.parent, stamp)
         IN  IF pl = None
             THEN {[props |-> Append(ps, numerical_error_prop(prop, stamp)),
                    ret |-> "Lookup"]}
             ELSE {IF o.ok
                   THEN after_finish(SetLast(ps, [prop EXCEPT !.horizon = o.horizon]), t)
                   ELSE [props |-> ps, ret |-> "Propagator"] :
                       o \in FinishOutcomes(prop, t, BodiesOf(Unwrap(pl).system))}

\* one iteration of propagate_to's loop: the possible outcomes
propagate_iter(ps, stamp, t) ==
    IF Len(ps) = 0 THEN {[props |-> ps, ret |-> "Lookup"]}
    ELSE LET prop == ps[Len(ps)]
             pl == lookup(prop.parent, stamp)
         IN  IF pl = None THEN {[props |-> ps, ret |-> "Lookup"]}
             ELSE {IF o.ok
                   THEN after_finish(SetLast(ps, [prop EXCEPT !.horizon = o.horizon]), t)
                   ELSE [props |-> ps, ret |-> "Propagator"] :
                       o \in FinishOutcomes(prop, t, BodiesOf(Unwrap(pl).system))}

\* faulty variant of loop_continues: one iteration too many
loop_continues_inclusive(i) == i <= max_iters

\* for _ in 0..max_iters: whether an iteration follows i completed ones
loop_continues(i) == i < max_iters

(***************************************************************************)
(* The state machine: one Orbiter and the calls made on it.  A call is     *)
(* made when the orbiter is idle; propagate_to runs its loop one iteration *)
(* a step; a call that returns leaves its result in `call` until the       *)
(* caller takes it.                                                        *)
(***************************************************************************)
Stamps == 0..MaxTime
Durs == {0, 1}
DVs == {-1, 0, 1}
FuelKgs == {MaxFuelKg}
InitOrbits == {[epoch |-> 0, pos |-> 0, vel |-> 1]}

\* a call: its arguments (t is stamp + future_dur), its result ("pending"
\* until it returns) and, inside propagate_to, the number of propagators
\* pruned and of iterations made (locals, gone when the call returns)
Call(op, stamp, t, dv, ret, pruned, iters) ==
    [op |-> op, stamp |-> stamp, t |-> t, dv |-> dv, ret |-> ret,
     pruned |-> pruned, iters |-> iters]

NoCall == Call("none", 0, 0, 0, "none", 0, 0)

\* no call of simulate in progress
NoSim == [pc |-> "idle", stamp |-> 0, t |-> 0, todo |-> {}, tosee |-> {},
          info |-> << >>, entry |-> << >>]

\* no function to apply
NoFn == [op |-> "none", done |-> TRUE]

\* no call of on_sim_ticks, no call of on_game_tick
NoRun == [pc |-> "idle"]
NoGame == [pc |-> "idle"]

\* the game loop is not part of the behaviours of one orbiter, nor of those
\* of a call of simulate
GameIdle == universe = << >> /\ run = NoRun /\ game = NoGame /\ fn = NoFn

\* the driver is not part of the behaviours of one orbiter
DriverIdle == orbiters = << >> /\ sim = NoSim /\ GameIdle

\* Orbiter::new(id, orbit, stamp): the inventory of Vehicle::random holds no
\* LiquidFuel
Init ==
    \E parent \in EntityIds, orbit \in InitOrbits, stamp \in Stamps :
        /\ props = <<Propagator_new(GlobalOrbit(parent, orbit), stamp)>>
        /\ fuel = 0
        /\ added = 0
        /\ pc = "idle"
        /\ call = NoCall
        /\ DriverIdle

\* propagate_to(stamp, future_dur, planets) is entered: the chain is pruned
\* and the loop begins
PropagateBegin ==
    \E stamp \in Stamps, dur \in Durs :
        /\ pc = "idle"
        /\ Len(props) <= MaxChain
        /\ props' = prune(props, stamp)
        /\ pc' = "loop"
        /\ call' = Call("propagate_to", stamp, stamp + dur, 0, "pending",
                        Len(props) - Len(prune(props, stamp)), 0)
        /\ UNCHANGED <<fuel, added>>
        /\ UNCHANGED <<driver_vars, game_vars, fn>>

\* one iteration of the loop; the call returns from it, or after it when
\* the iterations are used up
PropagateIter ==
    /\ pc = "loop"
    /\ \E r \in propagate_iter(props, call.stamp, call.t) :
        LET n == call.iters + 1
            ret == IF r.ret # "continue" THEN r.ret
                   ELSE IF loop_continues(n) THEN "pending"
                   ELSE "TooManyIterations"
        IN  /\ props' = r.props
            /\ call' = IF ret = "pending" THEN [call EXCEPT !.iters = n]
                       ELSE Call(call.op, call.stamp, call.t, 0, ret, 0, 0)
            /\ pc' = IF ret = "pending" THEN "loop" ELSE "done"
    /\ UNCHANGED <<fuel, added>>
    /\ UNCHANGED <<driver_vars, game_vars, fn>>

\* impulsive_burn(stamp, dv)
Burn ==
    \E stamp \in Stamps, dv \in DVs :
        LET r == impulsive_burn(props, fuel, stamp, dv)
        IN  /\ pc = "idle"
            /\ Len(props) <= MaxChain
            /\ props' = r.props
            /\ fuel' = r.fuel
            /\ call' = Call("impulsive_burn", stamp, stamp, dv, r.ret, 0, 0)
            /\ pc' = "done"
            /\ UNCHANGED added
            /\ UNCHANGED <<driver_vars, game_vars, fn>>

\* add_fuel(kg)
AddFuel ==
    \E kg \in FuelKgs :
        /\ pc = "idle"
        /\ added + kg <= MaxFuelKg
        /\ fuel' = add(fuel, kg * GramsPerKg)
        /\ added' = added + kg
        /\ UNCHANGED <<props, pc, call>>
        /\ UNCHANGED <<driver_vars, game_vars, fn>>

\* the caller takes the result
Return ==
    /\ pc = "done"
    /\ pc' = "idle"
    /\ call' = NoCall
    /\ UNCHANGED <<props, fuel, added>>
    /\ UNCHANGED <<driver_vars, game_vars, fn>>

Next == PropagateBegin \/ PropagateIter \/ Burn \/ AddFuel \/ Return

Spec == Init /\ [][Next]_vars

TypeOK ==
    /\ pc \in {"idle", "loop", "done"}
    /\ fuel \in 0..(MaxFuelKg * GramsPerKg)
    /\ Len(props) <= MaxChain + max_iters

(***************************************************************************)
(* Properties.                                                             *)
(***************************************************************************)
Last(ps) == ps[Len(ps)]

\* the step is a call of impulsive_burn (with the arguments in call')
BurnStep == pc = "idle" /\ call'.op = "impulsive_burn"

\* the step enters propagate_to and prunes
PruneStep == pc = "idle" /\ call'.op = "propagate_to"

\* propagate_to has returned
Propagated == pc = "done" /\ call.op = "propagate_to"

\* impulsive_burn has returned
Burned == pc = "done" /\ call.op = "impulsive_burn"

\* C1: the chain is contiguous and ordered: each propagator that has a
\* successor has an end, the successor starts exactly at that end, and the
\* start times do not decrease along the chain.
C1_ChainContiguous ==
    \A i \in 1..(Len(props) - 1) :
        /\ end(props[i]) = Some(props[i + 1].start)
        /\ props[i].start <= props[i + 1].start

\* C1 witness: propagate_to has returned with a chain of three or more
\* propagators whose first segment has a positive length.
C1_Witness ==
    /\ Propagated
    /\ Len(props) >= 3
    /\ props[1].start < props[2].start

\* C2: only the last propagator of the chain may have a non-final horizon:
\* every propagator that has a successor has a Transition horizon.
C2_OnlyLastNonFinal ==
    \A i \in 1..(Len(props) - 1) : props[i].horizon.kind = "Transition"

\* C2 witness: a chain of two or more whose last propagator is Continuing
\* once propagate_to has returned.
C2_Witness ==
    /\ Propagated
    /\ Len(props) >= 2
    /\ Last(props).horizon.kind = "Continuing"

\* C3: at every query time at most one propagator of the chain is active.
C3_AtMostOneActive ==
    \A t \in Times :
        Cardinality({i \in 1..Len(props) : is_active(props[i], t)}) <= 1

\* C3 witness: a chain whose first two propagators are each active at some
\* time, the second one at the time the first one ends.
C3_Witness ==
    /\ Len(props) >= 2
    /\ \E t \in Times : is_active(props[1], t)
    /\ is_active(props[2], props[1].horizon.end)

\* C4 as claimed: propagate_to prunes from the front exactly the
\* propagators whose end is before stamp, never one whose end is at or
\* after stamp or that has no end, and after the call every remaining
\* propagator that is not the last one has an end at or after stamp.
C4_PrunedAfterCall ==
    [][/\ PruneStep =>
            \E k \in 0..Len(props) :
                /\ props' = SubSeq(props, k + 1, Len(props))
                /\ \A i \in 1..k : unwrap_or(end(props[i]), call'.stamp) < call'.stamp
       /\ (pc' = "done" /\ call'.op = "propagate_to") =>
            \A i \in 1..(Len(props') - 1) :
                unwrap_or(end(props'[i]), call'.stamp) >= call'.stamp
      ]_vars

\* C4 amended: propagate_to first prunes from the front propagators whose
\* end is before stamp, never one whose end is at or after stamp or that
\* has no end and never the last one; when the pruning is done every
\* propagator that has a successor has an end at or after stamp, and these
\* propagators stay as they are for the rest of the call (the extension
\* only finishes the last propagator and appends after it).
C4_PrunedBeforeExtension ==
    [][/\ PruneStep =>
            /\ \E k \in 0..(Len(props) - 1) :
                /\ props' = SubSeq(props, k + 1, Len(props))
                /\ \A i \in 1..k : unwrap_or(end(props[i]), call'.stamp) < call'.stamp
            /\ \A i \in 1..(Len(props') - 1) :
                unwrap_or(end(props'[i]), call'.stamp) >= call'.stamp
       /\ pc = "loop" =>
            /\ Len(props') >= Len(props)
            /\ \A i \in 1..(Len(props) - 1) : props'[i] = props[i]
      ]_vars

\* C4 witness: the loop is about to start on a chain from which the
\* pruning removed a propagator and kept a propagator with a successor.
C4_Witness ==
    /\ pc = "loop"
    /\ call.iters = 0
    /\ call.pruned > 0
    /\ Len(props) >= 2

\* the last propagator is still being computed and does not reach beyond t
ShortOfHorizon(ps, t) ==
    /\ Last(ps).horizon.kind = "Continuing"
    /\ Last(ps).horizon.end <= t

\* C5: propagate_to makes at most max_iters (10) iterations, each of which
\* appends at most one propagator, and returns TooManyIterations exactly
\* when the tenth iteration ends without an error and with the chain short
\* of stamp + future_dur (its last propagator Continuing and not computed
\* beyond it).
C5_IterationCap ==
    [][pc = "loop" =>
        /\ call.iters < max_iters
        /\ Len(props') <= Len(props) + 1
        /\ (call'.ret = "TooManyIterations") <=>
               (/\ call.iters + 1 = max_iters
                /\ ShortOfHorizon(props', call.t)
                /\ call'.ret \notin {"Lookup", "Propagator"})
      ]_vars

\* C5 witness: propagate_to has returned TooManyIterations after appending
\* ten propagators.
C5_Witness ==
    /\ Propagated
    /\ call.ret = "TooManyIterations"
    /\ Len(props) >= max_iters + 1

\* C6 as claimed: propagate_to returns Ok only if the last propagator's
\* end is at or beyond stamp + future_dur, or the chain ends in a
\* terminating event or an Indefinite horizon.
C6_OkReachesHorizon ==
    (Propagated /\ call.ret = "Ok") =>
        \/ Last(props).horizon.kind \in {"Terminating", "Indefinite"}
        \/ Last(props).horizon.end >= call.t

\* C6 amended: propagate_to returns Ok only if the last propagator's end
\* is at or beyond stamp + future_dur, or the chain ends in a terminating
\* event or an Indefinite horizon, or it ends in a finished Transition
\* whose successor frame cannot be resolved (next_prop returns Ok(None)).
C6_OkReachesHorizonOrUnresolved ==
    (Propagated /\ call.ret = "Ok") =>
        \/ Last(props).horizon.kind \in {"Terminating", "Indefinite"}
        \/ Last(props).horizon.end >= call.t
        \/ /\ Last(props).horizon.kind = "Transition"
           /\ TransitionTarget(Last(props)) = None

\* C6 witness: propagate_to has returned Ok on a chain that ends, before
\* stamp + future_dur, in a Transition with no frame to go to.
C6_Witness ==
    /\ Propagated
    /\ call.ret = "Ok"
    /\ Last(props).horizon.kind = "Transition"
    /\ Last(props).horizon.end < call.t
    /\ TransitionTarget(Last(props)) = None

\* C7: after a successful impulsive_burn(stamp, dv) the chain is exactly
\* one propagator, which starts at stamp and has the parent of the
\* propagator that was active at stamp.
C7_BurnResetsChain ==
    [][(BurnStep /\ call'.ret = "Some") =>
        /\ Len(props') = 1
        /\ props'[1].start = call'.stamp
        /\ propagator_at(props, call'.stamp) # None
        /\ props'[1].parent = Unwrap(propagator_at(props, call'.stamp)).parent
      ]_vars

\* C7 witness: a burn with a delta-v has succeeded at a stamp after 0 in
\* the frame of body 1.
C7_Witness ==
    /\ Burned
    /\ call.ret = "Some"
    /\ call.dv # 0
    /\ call.stamp > 0
    /\ props[1].parent = 1

\* C8: impulsive_burn(stamp, dv) returns None whenever no propagator is
\* active at stamp, and then leaves the chain as it was.
C8_BurnNeedsActive ==
    [][(BurnStep /\ propagator_at(props, call'.stamp) = None) =>
        /\ call'.ret = "None"
        /\ props' = props
      ]_vars

\* C8 witness: a burn within the remaining delta-v has returned None on a
\* chain of two or more with no propagator active at stamp.
C8_Witness ==
    /\ Burned
    /\ call.ret = "None"
    /\ ~exceeds_remaining_dv(fuel, call.dv)
    /\ Len(props) >= 2
    /\ propagator_at(props, call.stamp) = None

EventFates == {"collide", "error", "escape", "transit"}
Fates == {[kind |-> k, at |-> 0] : k \in {"fail", "stable"}}
            \cup [kind : EventFates, at : Stamps]

\* Propagator::finish_or_compute_until(t, bodies) for a propagator of an
\* orbiter with fate `fate`: one of FinishOutcomes(p, t, bodies).
\*   fail: the search fails;  stable: Indefinite;
\*   collide, error: Terminating at fate.at;  escape: Transition out of the
\*   parent at fate.at;  transit: Transition into a body of the frame, or
\*   out of a frame that has none, at fate.at.
\* An event before the time computed so far is found there; an event after t
\* is not found yet, and the propagator is computed beyond t.
finish_or_compute_until(p, t, bodies, fate) ==
    IF p.horizon.kind # "Continuing" \/ p.horizon.end > t
    THEN [ok |-> TRUE, horizon |-> p.horizon]
    ELSE LET from == p.horizon.end
             x == IF fate.at >= from THEN fate.at ELSE from
         IN  IF fate.kind = "fail" THEN [ok |-> FALSE, horizon |-> p.horizon]
             ELSE IF fate.kind = "stable" THEN [ok |-> TRUE, horizon |-> Indefinite]
             ELSE IF x > t
                  THEN [ok |-> TRUE, horizon |-> Continuing(t + 1)]
             ELSE IF fate.kind = "collide"
                  THEN [ok |-> TRUE, horizon |-> Terminating(x, Collide(p.parent))]
             ELSE IF fate.kind = "error"
                  THEN [ok |-> TRUE, horizon |-> Terminating(x, NumericalError)]
             ELSE IF fate.kind = "escape" \/ bodies = {}
                  THEN [ok |-> TRUE, horizon |-> Transition(x, Escape(p.parent))]
             ELSE [ok |-> TRUE,
                   horizon |-> Transition(x, Encounter(CHOOSE b \in bodies : TRUE))]

\* one iteration of propagate_to's loop for an orbiter with fate `fate`:
\* the member of propagate_iter(ps, stamp, t) its fate selects
propagate_once(ps, stamp, t, fate) ==
    IF Len(ps) = 0 THEN [props |-> ps, ret |-> "Lookup"]
    ELSE LET prop == ps[Len(ps)]
             pl == lookup(prop.parent, stamp)
         IN  IF pl = None THEN [props |-> ps, ret |-> "Lookup"]
             ELSE LET o == finish_or_compute_until(prop, t, BodiesOf(Unwrap(pl).system), fate)
                  IN  IF o.ok
                      THEN after_finish(SetLast(ps, [prop EXCEPT !.horizon = o.horizon]), t)
                      ELSE [props |-> ps, ret |-> "Propagator"]

RECURSIVE propagate_loop(_, _, _, _, _)
\* the loop of propagate_to after i iterations
propagate_loop(ps, stamp, t, fate, i) ==
    IF ~loop_continues(i) THEN [props |-> ps, ret |-> "TooManyIterations"]
    ELSE LET r == propagate_once(ps, stamp, t, fate)
         IN  IF r.ret = "continue"
             THEN propagate_loop(r.props, stamp, t, fate, i + 1)
             ELSE r

\* Orbiter::propagate_to(stamp, future_dur, planets) as one call, with
\* t = stamp + future_dur: the chain it leaves and the value it returns
propagate_to(ps, stamp, t, fate) == propagate_loop(prune(ps, stamp), stamp, t, fate, 0)

\* Propagator::event: the event that ends the segment, if found
event(p) ==
    IF p.horizon.kind \in {"Terminating", "Transition"}
    THEN Some(p.horizon.ev) ELSE None

\* faulty variant of removal_info: reports the first propagator of the chain
removal_info_first(ps, stamp) ==
    IF Len(ps) = 0 THEN None
    ELSE Some([stamp |-> unwrap_or(end(ps[1]), stamp),
               reason |-> unwrap_or(event(ps[1]), NumericalError),
               parent |-> ps[1].parent,
               orbit |-> ps[1].orbit])

\* the RemovalInfo simulate builds from the last propagator of a removed
\* orbiter: ov.orbiter.props().last().map(|p| RemovalInfo {...})
removal_info(ps, stamp) ==
    IF Len(ps) = 0 THEN None
    ELSE Some([stamp |-> unwrap_or(end(ps[Len(ps)]), stamp),
               reason |-> unwrap_or(event(ps[Len(ps)]), NumericalError),
               parent |-> ps[Len(ps)].parent,
               orbit |-> ps[Len(ps)].orbit])

\* the closure of orbiters.retain: whether the orbiter stays in the map
retain_keeps(ps, stamp) == propagator_at(ps, stamp) # None

\* faulty variant of remaining: an error of propagate_to ends the loop
remaining_abort_on_error(todo, id, ret) ==
    IF ret # "Ok" THEN {} ELSE todo \ {id}

\* the orbiters the loop over the map has still to propagate after `id`,
\* whose propagate_to returned `ret`: the error is dropped
remaining(todo, id, ret) == todo \ {id}

\* faulty variant of removal_enabled: retain runs inside the loop
removal_enabled_early(todo) == TRUE

\* orbiters.retain(...) runs after the loop over the map is done
removal_enabled(todo) == todo = {}

\* the map without the entry of id
Without(map, id) == [k \in (DOMAIN map) \ {id} |-> map[k]]

OrbiterIds == {1002, 1003}

InitOrbiters ==
    {[props |-> <<Propagator_new(GlobalOrbit(parent, orbit), stamp)>>, fate |-> f] :
        parent \in EntityIds, orbit \in InitOrbits, stamp \in Stamps, f \in Fates}

\* the single orbiter of Spec is not part of the behaviours of the driver
OrbiterIdle ==
    /\ props = << >>
    /\ fuel = 0
    /\ added = 0
    /\ pc = "idle"
    /\ call = NoCall

\* a map of orbiters, each made by Orbiter::new
SimInit ==
    /\ orbiters \in [OrbiterIds -> InitOrbiters]
    /\ sim = NoSim
    /\ OrbiterIdle
    /\ GameIdle

\* simulate(orbiters, planets, stamp, future_dur) is entered
Simulate ==
    \E stamp \in Stamps, dur \in Durs :
        /\ sim.pc = "idle"
        /\ \A id \in DOMAIN orbiters : Len(orbiters[id].props) <= MaxChain
        /\ sim' = [pc |-> IF DOMAIN orbiters = {} THEN "done" ELSE "run",
                   stamp |-> stamp, t |-> stamp + dur,
                   todo |-> DOMAIN orbiters, tosee |-> DOMAIN orbiters,
                   info |-> << >>, entry |-> orbiters]
        /\ UNCHANGED <<orbiters, vars, game_vars, fn>>

\* for (_, ov) in orbiters.iter_mut(): propagate_to on the next orbiter, in
\* the order the map iterates
SimPropagate ==
    \E id \in sim.todo :
        LET r == propagate_to(orbiters[id].props, sim.stamp, sim.t, orbiters[id].fate)
        IN  /\ sim.pc = "run"
            /\ orbiters' = [orbiters EXCEPT ![id].props = r.props]
            /\ sim' = [sim EXCEPT !.todo = remaining(sim.todo, id, r.ret)]
            /\ UNCHANGED <<vars, game_vars, fn>>

RECURSIVE retain(_, _, _, _)
\* orbiters.retain(...) visiting the orbiters `order`, a sequence of ids, in
\* turn: the map and the removals pushed to `info`
retain(map, order, stamp, info) ==
    IF order = << >> THEN [orbiters |-> map, info |-> info]
    ELSE LET id == Head(order)
             ps == map[id].props
             reason == removal_info(ps, stamp)
         IN  IF retain_keeps(ps, stamp) THEN retain(map, Tail(order), stamp, info)
             ELSE retain(Without(map, id), Tail(order), stamp,
                         IF reason = None THEN info
                         ELSE Append(info, [id |-> id, info |-> Unwrap(reason)]))

\* the orders a map may iterate the ids S in
Orders(S) == {o \in [1..Cardinality(S) -> S] : \A i, j \in 1..Cardinality(S) : o[i] = o[j] => i = j}

\* orbiters.retain(...), in the order the map iterates; simulate returns
SimRetain ==
    \E order \in Orders(sim.tosee) :
        LET r == retain(orbiters, order, sim.stamp, sim.info)
        IN  /\ sim.pc = "run"
            /\ removal_enabled(sim.todo)
            /\ orbiters' = r.orbiters
            /\ sim' = [sim EXCEPT !.tosee = {}, !.info = r.info, !.pc = "done"]
            /\ UNCHANGED <<vars, game_vars, fn>>

\* the caller takes the removals
SimReturn ==
    /\ sim.pc = "done"
    /\ sim' = NoSim
    /\ UNCHANGED <<orbiters, vars, game_vars, fn>>

SimNext == Simulate \/ SimPropagate \/ SimRetain \/ SimReturn

SimSpec == SimInit /\ [][SimNext]_driver_vars

SimTypeOK ==
    /\ sim.pc \in {"idle", "run", "done"}
    /\ DOMAIN orbiters \subseteq OrbiterIds
    /\ sim.tosee \subseteq DOMAIN orbiters
    /\ \A id \in DOMAIN orbiters :
           /\ Len(orbiters[id].props) <= MaxChain + max_iters
           /\ propagate_once(orbiters[id].props, 0, 0, orbiters[id].fate)
                  \in propagate_iter(orbiters[id].props, 0, 0)

(***************************************************************************)
(* Properties of simulate.                                                 *)
(***************************************************************************)
\* simulate has returned
SimDone == sim.pc = "done"

\* the chain propagate_to leaves on the orbiter that was in the map under
\* `id` when simulate was entered
AfterPropagation(id) ==
    propagate_to(sim.entry[id].props, sim.stamp, sim.t, sim.entry[id].fate).props

\* the orbiters simulate has removed from the map
Removed == (DOMAIN sim.entry) \ (DOMAIN orbiters)

\* the removals reported for id
InfoOf(id) == {i \in 1..Len(sim.info) : sim.info[i].id = id}

PropagateStep == sim.pc = "run" /\ sim'.todo # sim.todo

\* the step removes an orbiter from the map
RemoveStep == DOMAIN orbiters' # DOMAIN orbiters

\* C12: within one simulate call an orbiter is removed only after
\* propagate_to has been called on every orbiter of the map, and no orbiter
\* is propagated after a removal: a step that removes is taken with no
\* orbiter left to propagate, a step that propagates with every orbiter the
\* call was entered with still in the map, and simulate returns with no
\* orbiter left to propagate.
C12_RemovalAfterPropagation ==
    [][/\ RemoveStep => sim.todo = {}
       /\ PropagateStep => DOMAIN orbiters = DOMAIN sim.entry
       /\ (sim.pc = "run" /\ sim'.pc = "done") => sim.todo = {}
      ]_driver_vars

\* C12 witness: simulate has returned from a map of two orbiters, both
\* propagated, having removed both.
C12_Witness ==
    /\ SimDone
    /\ Cardinality(DOMAIN sim.entry) = 2
    /\ sim.todo = {}
    /\ Cardinality(Removed) = 2

\* simulate(orbiters, planets, stamp, future_dur) as a function of the map,
\* with t = stamp + future_dur: the map it leaves and the set of the
\* removals it returns
simulate(map, stamp, t) ==
    LET after == [id \in DOMAIN map |->
                     propagate_to(map[id].props, stamp, t, map[id].fate).props]
        kept == {id \in DOMAIN map : retain_keeps(after[id], stamp)}
    IN  [orbiters |-> [id \in kept |-> [map[id] EXCEPT !.props = after[id]]],
         info |-> {[id |-> id, info |-> Unwrap(removal_info(after[id], stamp))] :
                      id \in {k \in (DOMAIN map) \ kept : removal_info(after[k], stamp) # None}}]

\* the removals simulate has returned, as a set
InfoSet == {sim.info[i] : i \in 1..Len(sim.info)}

\* propagate_to fails for the orbiter the call was entered with under id
\* (Lookup, TooManyIterations), or ends its chain in NumericalError
Failing(id) ==
    LET r == propagate_to(sim.entry[id].props, sim.stamp, sim.t, sim.entry[id].fate)
    IN  \/ r.ret \in {"Lookup", "TooManyIterations"}
        \/ event(Last(r.props)) = Some(NumericalError)

\* C13: per-orbiter failures are isolated: when propagate_to fails for one
\* orbiter (Lookup or TooManyIterations) or ends it in NumericalError,
\* simulate still propagates every other orbiter, and the chain, the
\* retention and the removal report of each other orbiter are those of
\* simulate on the map without the failing orbiter.
C13_FailuresIsolated ==
    SimDone =>
        \A x \in DOMAIN sim.entry :
            Failing(x) =>
                LET alone == simulate(Without(sim.entry, x), sim.stamp, sim.t)
                IN  /\ sim.todo = {}
                    /\ \A id \in (DOMAIN sim.entry) \ {x} :
                           /\ id \in DOMAIN orbiters <=> id \in DOMAIN alone.orbiters
                           /\ id \in DOMAIN orbiters => orbiters[id] = alone.orbiters[id]
                           /\ {e \in InfoSet : e.id = id} = {e \in alone.info : e.id = id}

\* C13 witness: simulate has returned from a map with an orbiter whose
\* propagate_to returned TooManyIterations, and has extended and retained
\* the other orbiter.
C13_Witness ==
    /\ SimDone
    /\ \E x \in DOMAIN sim.entry, id \in DOMAIN orbiters :
           /\ x # id
           /\ propagate_to(sim.entry[x].props, sim.stamp, sim.t, sim.entry[x].fate).ret
                  = "TooManyIterations"
           /\ Len(orbiters[id].props) > Len(sim.entry[id].props)

\* C14: the result of a simulate call does not depend on the order the map
\* is iterated in, by the loop or by retain: the map the call leaves and the
\* set of removals it returns are functions of the map it was entered with,
\* the stamp and the duration.
C14_OrderIndependent ==
    SimDone =>
        /\ orbiters = simulate(sim.entry, sim.stamp, sim.t).orbiters
        /\ InfoSet = simulate(sim.entry, sim.stamp, sim.t).info

\* C14 witness: simulate has returned having removed two orbiters that
\* retain visited in descending order of id, with different reports.
C14_Witness ==
    /\ SimDone
    /\ Len(sim.info) = 2
    /\ sim.info[1].id > sim.info[2].id
    /\ sim.info[1].info # sim.info[2].info

\* the propagation of the orbiter the call was entered with under id fails
\* by non-convergence: propagate_to returns TooManyIterations, or leaves a
\* chain that has ended, by stamp, in NumericalError
NonConvergent(id) ==
    LET r == propagate_to(sim.entry[id].props, sim.stamp, sim.t, sim.entry[id].fate)
    IN  \/ r.ret = "TooManyIterations"
        \/ /\ event(Last(r.props)) = Some(NumericalError)
           /\ Last(r.props).horizon.end <= sim.stamp

\* C15 as claimed: when an orbiter's propagation fails by solver
\* non-convergence (its chain ends in NumericalError, or propagate_to
\* returns TooManyIterations), simulate reports a removal of that orbiter to
\* the caller, while the other orbiters stay in the simulation.
C15_NonConvergenceReported ==
    SimDone =>
        \A x \in DOMAIN sim.entry :
            NonConvergent(x) =>
                /\ x \in Removed
                /\ InfoOf(x) # {}
                /\ \A id \in (DOMAIN sim.entry) \ {x} :
                       retain_keeps(AfterPropagation(id), sim.stamp) => id \in DOMAIN orbiters

(***************************************************************************)
(* The game loop: Universe (universe.rs) and GameState::on_game_tick       *)
(* (game.rs).  The orbital vehicles of the Universe are `orbiters`; each   *)
(* carries, besides its chain and its fate, the burns of its controller's  *)
(* plan and the velocity its rigid body has gathered from thrust.          *)
(* Surface vehicles, constellations, body angles and thruster states play  *)
(* no part in the stamp, the tick counter or the chains and are left out.  *)
(* nanotime.rs, control_signals.rs, planning.rs, control.rs and the entity *)
(* types are not among the source files.                                   *)
(***************************************************************************)
\* on_sim_ticks is called with at most MaxTicks ticks
MaxTicks == 2
\* on_sim_ticks is called while it leaves the stamp at or below MaxStamp
MaxStamp == 4

\* the fixed physics step, in the unit of time of the model
PHYSICS_CONSTANT_DELTA_TIME == 2
\* GameState::physics_duration (7 days): longer than a physics step
physics_duration == 3
\* the max_dur on_game_tick passes (10 ms), in the unit of Durations
GameMaxDur == 1
\* elapsed wall-clock times, and the max_dur on_sim_ticks is called with
Durations == {0, 1, 2}
MaxDurs == {0, GameMaxDur}

\* Universe::new hands the first ids to the landing sites; orbital vehicles
\* get the ids that follow
LandingSiteIds == {1002}
VehicleIds == {1003, 1004}

\* the frames and the fates of the orbital vehicles added to the Universe
GameParents == {0}
GameFates == {[kind |-> "stable", at |-> 0], [kind |-> "collide", at |-> 1]}

\* Universe::new(planets), after its loop over generate_landing_sites
Universe_new ==
    [stamp |-> 0, ticks |-> 0, next_entity_id |-> 1003,
     landing_sites |-> [id \in LandingSiteIds |-> FALSE]]

Put(map, id, v) == [k \in (DOMAIN map) \cup {id} |-> IF k = id THEN v ELSE map[k]]

\* Universe::add_orbital_vehicle(vehicle, orbit): the Universe and its
\* orbital vehicles after it
add_orbital_vehicle(u, map, gorbit, fate) ==
    [universe |-> [u EXCEPT !.next_entity_id = @ + 1],
     orbiters |-> Put(map, u.next_entity_id,
                      [props |-> <<Propagator_new(gorbit, u.stamp)>>, fate |-> fate,
                       plan |-> {}, body_pv |-> 0])]

\* Universe::toggle_sleep(surface_id)
toggle_sleep(u, surface_id) ==
    IF surface_id \in DOMAIN u.landing_sites
    THEN [u EXCEPT !.landing_sites[surface_id] = ~@]
    ELSE u

\* faulty variant of run_batch_ticks: the stamp advances by one step
run_batch_ticks_one_step(u, ticks) ==
    [u EXCEPT !.ticks = @ + ticks, !.stamp = @ + PHYSICS_CONSTANT_DELTA_TIME]

\* Universe::run_batch_ticks(ticks)
run_batch_ticks(u, ticks) ==
    [u EXCEPT !.ticks = @ + ticks, !.stamp = @ + PHYSICS_CONSTANT_DELTA_TIME * ticks]

\* OrbitalSpacecraftEntity::current_orbit(stamp): the orbit of the active
\* propagator at stamp, moved by the velocity of the rigid body
current_orbit(ov, stamp) == burn_orbit(ov.props, stamp, ov.body_pv)

\* the body of on_sim_tick's loop for one orbital vehicle: `aged` says
\* whether reference_orbit_age has passed 100 ms, `commanded` whether the
\* signals hold a piloting command for it (whose thrust moves the body)
tick_vehicle(ov, stamp, aged, commanded) ==
    LET orbit == current_orbit(ov, stamp)
        seeded == IF aged /\ ov.body_pv # 0 /\ orbit # None
                  THEN [ov EXCEPT !.props = <<Propagator_new(Unwrap(orbit), stamp)>>,
                                  !.body_pv = 0]
                  ELSE ov
    IN  IF commanded THEN [seeded EXCEPT !.body_pv = 1] ELSE seeded

\* Universe::on_sim_tick(signals): the Universe and its orbital vehicles
\* after it
on_sim_tick(u, map, signals, aged) ==
    LET stamp == u.stamp + PHYSICS_CONSTANT_DELTA_TIME
    IN  [universe |-> [u EXCEPT !.ticks = @ + 1, !.stamp = stamp],
         orbiters |-> [id \in DOMAIN map |->
                          tick_vehicle(map[id], stamp, id \in aged, id \in signals)]]

\* faulty variant of batch_shortcut: the landing sites are not looked at
batch_shortcut_ignores_surfaces(surfaces_awake, signals) == signals = {}

\* the condition of on_sim_ticks's `if`: !surfaces_awake && signals.is_empty()
batch_shortcut(surfaces_awake, signals) == ~surfaces_awake /\ signals = {}

\* faulty variant of tick_loop_ends: the elapsed time is not looked at
tick_loop_ends_unguarded(exec_time, max_dur, done, ticks) == done = ticks

\* whether on_sim_ticks's loop ends after an iteration: the break, or the
\* range 0..ticks run through
tick_loop_ends(exec_time, max_dur, done, ticks) == exec_time > max_dur \/ done = ticks

\* the control signals of a call: the ids that have a piloting command (the
\* one vehicle the player pilots, the first)
Signals == {{}, {1003}}

\* on_sim_ticks(ticks, signals, max_dur) is entered: the batch shortcut is
\* taken as a whole; `e` is the wall-clock time it takes
EnterSimTicks(caller, ticks, signals, max_dur, e) ==
    LET surfaces_awake == \E id \in DOMAIN universe.landing_sites :
                              universe.landing_sites[id]
        batch == batch_shortcut(surfaces_awake, signals)
    IN  /\ run.pc = "idle"
        /\ universe.stamp + PHYSICS_CONSTANT_DELTA_TIME * ticks <= MaxStamp
        /\ universe' = IF batch THEN run_batch_ticks(universe, ticks) ELSE universe
        /\ run' = [pc |-> IF batch \/ ticks = 0 THEN "done" ELSE "loop",
                   caller |-> caller, ticks |-> ticks, signals |-> signals,
                   max_dur |-> max_dur, surfaces_awake |-> surfaces_awake,
                   actual_ticks |-> IF batch THEN ticks ELSE 0,
                   exec_time |-> IF batch THEN e ELSE 0,
                   batch_mode |-> batch, calls |-> 0, entry |-> universe]
        /\ UNCHANGED orbiters

GameInit ==
    /\ universe = Universe_new
    /\ orbiters = << >>
    /\ run = NoRun
    /\ game = NoGame
    /\ sim = NoSim
    /\ OrbiterIdle
    /\ fn = NoFn

Quiet == run.pc = "idle" /\ game.pc = "idle"

\* add_orbital_vehicle(vehicle, orbit)
AddOrbitalVehicle ==
    \E parent \in GameParents, orbit \in InitOrbits, fate \in GameFates :
        LET r == add_orbital_vehicle(universe, orbiters, GlobalOrbit(parent, orbit), fate)
        IN  /\ Quiet
            /\ universe.next_entity_id \in VehicleIds
            /\ universe' = r.universe
            /\ orbiters' = r.orbiters
            /\ UNCHANGED <<run, game, sim, vars, fn>>

\* toggle_sleep(surface_id)
ToggleSleep ==
    \E surface_id \in LandingSiteIds :
        /\ Quiet
        /\ universe' = toggle_sleep(universe, surface_id)
        /\ UNCHANGED <<orbiters, run, game, sim, vars, fn>>

\* the burns a plan made at `stamp` may hold
Burns(stamp) ==
    [t : (stamp + 1)..(stamp + PHYSICS_CONSTANT_DELTA_TIME), dv : {1}]

\* command_selected: the controller of an orbital vehicle that has no plan
\* is given one
SetDestination ==
    \E id \in DOMAIN orbiters, plan \in (SUBSET Burns(universe.stamp)) \ {{}} :
        /\ Quiet
        /\ orbiters[id].plan = {}
        /\ universe.stamp < MaxStamp
        /\ orbiters' = [orbiters EXCEPT ![id].plan = plan]
        /\ UNCHANGED <<universe, run, game, sim, vars, fn>>

\* on_sim_ticks(ticks, signals, max_dur) is called on the Universe
OnSimTicks ==
    \E ticks \in 0..MaxTicks, signals \in Signals, max_dur \in MaxDurs, e \in Durations :
        /\ Quiet
        /\ EnterSimTicks("direct", ticks, signals, max_dur, e)
        /\ UNCHANGED <<game, sim, vars, fn>>

\* one iteration of the loop of on_sim_ticks: actual_ticks += 1, on_sim_tick,
\* the elapsed time e is read, and the loop breaks or goes on
SimTick ==
    \E aged \in SUBSET DOMAIN orbiters, e \in Durations :
        LET r == on_sim_tick(universe, orbiters, run.signals, aged)
            done == run.actual_ticks + 1
        IN  /\ run.pc = "loop"
            /\ e >= run.exec_time
            /\ universe' = r.universe
            /\ orbiters' = r.orbiters
            /\ run' = [run EXCEPT !.actual_ticks = done, !.calls = @ + 1,
                                  !.exec_time = e,
                                  !.pc = IF tick_loop_ends(e, run.max_dur, done, run.ticks)
                                         THEN "done" ELSE "loop"]
            /\ UNCHANGED <<game, sim, vars, fn>>

\* on_sim_ticks returns (actual_ticks, exec_time, batch_mode)
SimTicksReturn ==
    /\ run.pc = "done"
    /\ run' = NoRun
    /\ game' = IF run.caller = "game"
               THEN [game EXCEPT !.pc = "after", !.actual_ticks = run.actual_ticks,
                                 !.batch_mode = run.batch_mode]
               ELSE game
    /\ UNCHANGED <<universe, orbiters, sim, vars, fn>>

\* on_game_tick is entered: the signals are built and, unless the game is
\* paused, on_sim_ticks is called
OnGameTick ==
    \E paused \in BOOLEAN, ticks \in 1..MaxTicks, signals \in Signals, e \in Durations :
        LET g == [pc |-> IF paused THEN "after" ELSE "sim", paused |-> paused,
                  actual_ticks |-> 0, batch_mode |-> FALSE,
                  entry |-> [stamp |-> universe.stamp, orbiters |-> orbiters],
                  applied |-> << >>, info |-> {}]
        IN  /\ Quiet
            /\ game' = g
            /\ IF paused THEN UNCHANGED <<universe, orbiters, run>>
               ELSE EnterSimTicks("game", ticks, signals, GameMaxDur, e)
            /\ UNCHANGED <<sim, vars, fn>>

\* ManeuverPlan::future_dvs(after): the scheduled burns after `after`
future_dvs(plan, after) == {b \in plan : b.t > after}

\* planned_maneuvers(after): the burns of all plans, sorted by time (burns
\* of the same time in the order the map gave them)
planned_maneuvers(map, after) ==
    LET all == UNION {{[id |-> id, t |-> b.t, dv |-> b.dv] :
                          b \in future_dvs(map[id].plan, after)} : id \in DOMAIN map}
    IN  {o \in Orders(all) : \A i, j \in DOMAIN o : i < j => o[i].t <= o[j].t}

\* Orbiter::try_impulsive_burn(stamp, dv): the chain is replaced by one
\* propagator on the orbit after the burn, if there is one
try_impulsive_burn(ps, stamp, dv) ==
    LET orbit == burn_orbit(ps, stamp, dv)
    IN  IF orbit = None THEN [ret |-> "None", props |-> ps]
        ELSE [ret |-> "Some", props |-> <<Propagator_new(Unwrap(orbit), stamp)>>]

\* GameState::impulsive_burn(id, stamp, dv)
game_impulsive_burn(map, id, stamp, dv) ==
    IF id \notin DOMAIN map THEN map
    ELSE [map EXCEPT ![id].props = try_impulsive_burn(@, stamp, dv).props]

RECURSIVE apply_burns(_, _, _, _, _)
\* on_game_tick's loop over `man`: the map after it and the burns applied
apply_burns(map, man, s, d, applied) ==
    IF man = << >> THEN [orbiters |-> map, applied |-> applied]
    ELSE LET b == Head(man)
         IN  IF s > b.t
             THEN apply_burns(
                      game_impulsive_burn(simulate(map, b.t, b.t + d).orbiters,
                                          b.id, b.t, b.dv),
                      Tail(man), s, d, Append(applied, [id |-> b.id, t |-> b.t]))
             ELSE [orbiters |-> map, applied |-> applied]

\* faulty variant of final_simulate: no simulate at the end of the tick
final_simulate_skipped(map, s, d) == [orbiters |-> map, info |-> {}]

\* faulty variant of final_simulate: what simulate returns is dropped
final_simulate_discards(map, s, d) ==
    [orbiters |-> simulate(map, s, s + d).orbiters, info |-> {}]

\* the call of simulate that ends on_game_tick's physics
final_simulate(map, s, d) == simulate(map, s, s + d)

\* the rest of on_game_tick: the planned burns up to the stamp, then
\* simulate at the stamp
GameTickFinish ==
    LET old_sim_time == universe.stamp
        s == universe.stamp
        d == physics_duration
    IN  \E man \in planned_maneuvers(orbiters, old_sim_time) :
            LET r == apply_burns(orbiters, man, s, d, << >>)
                f == final_simulate(r.orbiters, s, d)
            IN  /\ game.pc = "after"
                /\ orbiters' = f.orbiters
                /\ game' = [game EXCEPT !.pc = "done", !.applied = r.applied,
                                        !.info = f.info]
                /\ UNCHANGED <<universe, run, sim, vars, fn>>

\* on_game_tick returns
GameTickReturn ==
    /\ game.pc = "done"
    /\ game' = NoGame
    /\ UNCHANGED <<universe, orbiters, run, sim, vars, fn>>

GameNext ==
    \/ AddOrbitalVehicle
    \/ ToggleSleep
    \/ SetDestination
    \/ OnSimTicks
    \/ SimTick
    \/ SimTicksReturn
    \/ OnGameTick
    \/ GameTickFinish
    \/ GameTickReturn

GameSpec == GameInit /\ [][GameNext]_<<orbiters, universe, run, game>>

GameTypeOK ==
    /\ universe.stamp \in 0..MaxStamp
    /\ universe.ticks \in Nat
    /\ DOMAIN orbiters \subseteq VehicleIds
    /\ run.pc \in {"idle", "loop", "done"}
    /\ game.pc \in {"idle", "sim", "after", "done"}
    /\ run.pc # "idle" => run.actual_ticks \in 0..MaxTicks

(***************************************************************************)
(* Properties of on_sim_ticks and on_game_tick.                            *)
(***************************************************************************)
loop_vars == <<orbiters, universe, run, game>>

\* a call of on_sim_ticks is returning
Returning == run.pc = "done"

\* at the entry of the call no landing site was awake
AllAsleep == \A id \in DOMAIN run.entry.landing_sites : ~run.entry.landing_sites[id]

\* C16: on_sim_ticks takes the batch shortcut exactly when no control
\* signals are pending and no landing site is awake; it then returns
\* batch_mode = true and actual_ticks = ticks whatever max_dur is, having
\* made no call of on_sim_tick; otherwise it returns batch_mode = false.
C16_BatchShortcut ==
    Returning =>
        /\ run.batch_mode = (run.signals = {} /\ AllAsleep)
        /\ run.batch_mode =>
               /\ run.actual_ticks = run.ticks
               /\ run.calls = 0
               /\ universe = run_batch_ticks(run.entry, run.ticks)
        /\ ~run.batch_mode => run.calls = run.actual_ticks

\* C16 witness: a call with two ticks and max_dur 0 has taken the shortcut
\* and returns all its ticks, though the elapsed time is beyond max_dur.
C16_Witness ==
    /\ Returning
    /\ run.batch_mode
    /\ run.ticks = 2
    /\ run.actual_ticks = 2
    /\ run.max_dur = 0
    /\ run.exec_time > run.max_dur

RECURSIVE sequential_ticks(_, _)
\* the Universe after n calls of on_sim_tick
sequential_ticks(u, n) ==
    IF n = 0 THEN u
    ELSE sequential_ticks(on_sim_tick(u, << >>, {}, {}).universe, n - 1)

\* C17: in both modes a call of on_sim_ticks advances the stamp by exactly
\* actual_ticks physics steps and the tick counter by exactly actual_ticks;
\* a batch of N ticks leaves the stamp and the counter N calls of
\* on_sim_tick would leave.
C17_StampAndTicks ==
    Returning =>
        /\ universe.stamp = run.entry.stamp + run.actual_ticks * PHYSICS_CONSTANT_DELTA_TIME
        /\ universe.ticks = run.entry.ticks + run.actual_ticks
        /\ run.batch_mode => universe = sequential_ticks(run.entry, run.ticks)

\* C17 witness: a batch of two ticks returns, the stamp two physics steps
\* and the counter two ticks beyond those at its entry.
C17_Witness ==
    /\ Returning
    /\ run.batch_mode
    /\ run.ticks = 2
    /\ universe.stamp = run.entry.stamp + 2 * PHYSICS_CONSTANT_DELTA_TIME
    /\ universe.ticks = run.entry.ticks + 2
    /\ universe.stamp > PHYSICS_CONSTANT_DELTA_TIME

\* a step that is one iteration of the loop of on_sim_ticks
TickStep == run.pc = "loop" /\ run' # run

\* C18: in per-tick mode no on_sim_tick is called once the elapsed time has
\* been read beyond max_dur: the loop ends with the first tick that exceeds
\* it; actual_ticks is the number of calls of on_sim_tick, at most ticks.
C18_StopsEarly ==
    [][/\ TickStep =>
              /\ run.exec_time <= run.max_dur
              /\ run'.calls = run.calls + 1
              /\ run'.exec_time > run'.max_dur => run'.pc = "done"
       /\ (run'.pc # "idle" /\ ~run'.batch_mode) =>
              /\ run'.actual_ticks = run'.calls
              /\ run'.calls <= run'.ticks
      ]_loop_vars

\* C18 witness: a call of two ticks in per-tick mode returns after one
\* tick, its elapsed time beyond max_dur.
C18_Witness ==
    /\ Returning
    /\ ~run.batch_mode
    /\ run.ticks = 2
    /\ run.actual_ticks = 1
    /\ run.calls = 1
    /\ run.exec_time > run.max_dur

\* the step that ends the physics of a game tick
FinishStep == game.pc = "after" /\ game'.pc = "done"

\* the orbital vehicles that have no active propagator at the stamp
Terminated(map, stamp) == {id \in DOMAIN map : propagator_at(map[id].props, stamp) = None}

\* C19 as claimed: each on_sim_tick advances the stamp by one physics step
\* and propagates and removes, so that after a tick no orbiter without an
\* active propagator remains.
C19_TickRemovesTerminated ==
    [][TickStep =>
           /\ universe'.stamp = universe.stamp + PHYSICS_CONSTANT_DELTA_TIME
           /\ Terminated(orbiters', universe'.stamp) = {}
      ]_loop_vars

\* C19, amended: each on_sim_tick advances the stamp by one physics step and
\* removes no orbiter; on_game_tick, after on_sim_ticks has returned, calls
\* simulate once for the stamp reached, which calls propagate_to on every
\* orbiter and removes every terminated one and reports it, so that after
\* a game tick no orbiter without an active propagator remains.
C19_GameTickRemovesTerminated ==
    [][/\ TickStep =>
              /\ universe'.stamp = universe.stamp + PHYSICS_CONSTANT_DELTA_TIME
              /\ DOMAIN orbiters' = DOMAIN orbiters
       /\ FinishStep =>
              LET s == universe.stamp
                  after == [id \in DOMAIN orbiters |->
                               propagate_to(orbiters[id].props, s, s + physics_duration,
                                            orbiters[id].fate).props]
                  gone == (DOMAIN orbiters) \ (DOMAIN orbiters')
              IN  /\ universe' = universe
                  /\ Terminated(orbiters', s) = {}
                  /\ gone = {id \in DOMAIN orbiters : propagator_at(after[id], s) = None}
                  /\ \A id \in DOMAIN orbiters' : orbiters'[id].props = after[id]
                  /\ \A id \in gone : \E r \in game'.info : r.id = id
      ]_loop_vars

\* C19 witness: a game tick that ran on_sim_tick, not the batch, ends with a
\* vehicle removed and reported that had gone through the tick, and another
\* vehicle kept.
C19_Witness ==
    /\ game.pc = "done"
    /\ ~game.batch_mode
    /\ game.actual_ticks >= 1
    /\ game.info # {}
    /\ orbiters # << >>
    /\ \E r \in game.info : r.id \in DOMAIN game.entry.orbiters

\* the burns scheduled at the entry of the game tick whose time lies inside
\* the interval of simulated time the tick advanced
DueBurns ==
    UNION {{[id |-> id, t |-> b.t] :
               b \in {x \in game.entry.orbiters[id].plan :
                          game.entry.stamp < x.t /\ x.t < universe.stamp}} :
           id \in DOMAIN game.entry.orbiters}

\* C20 as claimed: during on_game_tick every scheduled burn whose time
\* falls inside the interval of simulated time the tick advanced is applied
\* exactly once, at its scheduled time, and the burns are applied in
\* non-decreasing order of time.
C20_BurnsApplied ==
    game.pc = "done" =>
        /\ \A b \in DueBurns :
               Cardinality({i \in DOMAIN game.applied : game.applied[i] = b}) = 1
        /\ \A i, j \in DOMAIN game.applied :
               i < j => game.applied[i].t <= game.applied[j].t

\* the orbital vehicles of the entry of the game tick that are no longer in
\* the map
Gone == (DOMAIN game.entry.orbiters) \ (DOMAIN orbiters)

rest_vars == <<vars, driver_vars, game_vars>>
RestIdle ==
    /\ OrbiterIdle
    /\ orbiters = << >>
    /\ sim = NoSim
    /\ universe = << >>
    /\ run = NoRun
    /\ game = NoGame

(***************************************************************************)
(* PlanetarySystem::lookup on any tree (scenario.rs).  A system is         *)
(* [id, subsystems], subsystems a sequence of [orbit, sys]; an orbit       *)
(* carries the last time its state can be evaluated at (SparseOrbit::pv is *)
(* fallible).  lookup_inner above is this function on the fixed system of  *)
(* the orbiter's model.                                                    *)
(***************************************************************************)
\* an orbit's state can be evaluated for ever, or not after time 0
Forever == 99
SystemOrbits ==
    [epoch : {0}, pos : 0..MaxPos, vel : {1}, range : {0, Forever}]

PlanetarySystem_new(id) == [id |-> id, subsystems |-> << >>]

\* PlanetarySystem::orbit(orbit, planets): push a subsystem
PlanetarySystem_orbit(self, orbit, planets) ==
    [self EXCEPT !.subsystems = Append(@, [orbit |-> orbit, sys |-> planets])]

\* the systems looked up in: of every shape with up to four bodies, the
\* bodies numbered in the order they are made
Systems ==
    LET S(i) == PlanetarySystem_new(i)
    IN  {S(0)}
        \cup {PlanetarySystem_orbit(S(0), a, S(1)) : a \in SystemOrbits}
        \cup {PlanetarySystem_orbit(S(0), a, PlanetarySystem_orbit(S(1), b, S(2))) :
                 a, b \in SystemOrbits}
        \cup {PlanetarySystem_orbit(PlanetarySystem_orbit(S(0), a, S(1)), b, S(2)) :
                 a, b \in SystemOrbits}
        \cup {PlanetarySystem_orbit(S(0), a,
                  PlanetarySystem_orbit(S(1), b, PlanetarySystem_orbit(S(2), c, S(3)))) :
                 a, b, c \in SystemOrbits}
        \cup {PlanetarySystem_orbit(
                  PlanetarySystem_orbit(S(0), a, PlanetarySystem_orbit(S(1), b, S(3))),
                  c, S(2)) : a, b, c \in SystemOrbits}
SystemIds == 0..4

\* SparseOrbit::pv(stamp): Err beyond the range of the orbit
SparseOrbit_pv(orbit, stamp) ==
    IF stamp > orbit.range THEN None ELSE Some(orbit_pv(orbit, stamp))

RECURSIVE PlanetarySystem_lookup_inner(_, _, _, _, _)
RECURSIVE PlanetarySystem_lookup_subsystems(_, _, _, _, _)
\* the loop of lookup_inner over self.subsystems, from the i-th
PlanetarySystem_lookup_subsystems(self, i, id, stamp, wrt) ==
    IF i > Len(self.subsystems) THEN None
    ELSE LET orbit == self.subsystems[i].orbit
             pl == self.subsystems[i].sys
             pv == SparseOrbit_pv(orbit, stamp)
             ret == IF pv = None THEN None
                    ELSE PlanetarySystem_lookup_inner(pl, id, stamp,
                             PVAdd(wrt, Unwrap(pv)), Some(self.id))
         IN  IF ret # None THEN ret
             ELSE PlanetarySystem_lookup_subsystems(self, i + 1, id, stamp, wrt)

\* faulty variant of PlanetarySystem_lookup_inner: the state of the parent
\* is not carried down
PlanetarySystem_lookup_inner_no_wrt(self, id, stamp, wrt, parent_id) ==
    IF self.id = id
    THEN Some([pv |-> wrt, parent |-> parent_id, system |-> self])
    ELSE PlanetarySystem_lookup_subsystems(self, 1, id, stamp, PVZero)

\* PlanetarySystem::lookup_inner(id, stamp, wrt, parent_id)
PlanetarySystem_lookup_inner(self, id, stamp, wrt, parent_id) ==
    IF self.id = id
    THEN Some([pv |-> wrt, parent |-> parent_id, system |-> self])
    ELSE PlanetarySystem_lookup_subsystems(self, 1, id, stamp, wrt)

\* PlanetarySystem::lookup(id, stamp)
PlanetarySystem_lookup(self, id, stamp) ==
    PlanetarySystem_lookup_inner(self, id, stamp, PVZero, None)

LookupInit ==
    /\ fn \in [op : {"lookup"}, sys : Systems, id : SystemIds, stamp : Stamps,
               ret : {None}, done : {FALSE}]
    /\ RestIdle

\* planets.lookup(id, stamp)
Lookup ==
    /\ fn.op = "lookup"
    /\ ~fn.done
    /\ fn' = [fn EXCEPT !.ret = PlanetarySystem_lookup(fn.sys, fn.id, fn.stamp),
                        !.done = TRUE]
    /\ UNCHANGED rest_vars

LookupSpec == LookupInit /\ [][Lookup]_fn

\* the parent-child pairs of a system, each with the orbit of the child
RECURSIVE Edges(_)
Edges(sys) ==
    UNION {{[parent |-> sys.id, orbit |-> sys.subsystems[i].orbit,
             child |-> sys.subsystems[i].sys]}
           \cup Edges(sys.subsystems[i].sys) : i \in 1..Len(sys.subsystems)}

\* the bodies of a system
Bodies(sys) == {sys.id} \cup {e.child.id : e \in Edges(sys)}

RECURSIVE PathOrbits(_, _)
\* the orbits on the path from the root of `sys` down to body `id`
PathOrbits(sys, id) ==
    IF id = sys.id THEN << >>
    ELSE LET e == CHOOSE x \in Edges(sys) : x.child.id = id
         IN  Append(PathOrbits(sys, e.parent), e.orbit)

RECURSIVE SumAt(_, _)
\* the sum of the states at `stamp` of a sequence of orbits
SumAt(orbits, stamp) ==
    IF orbits = << >> THEN PVZero
    ELSE PVAdd(SumAt(Tail(orbits), stamp), orbit_pv(Head(orbits), stamp))

\* every orbit of the sequence can be evaluated at `stamp`
AllEvaluate(orbits, stamp) ==
    \A i \in 1..Len(orbits) : SparseOrbit_pv(orbits[i], stamp) # None

\* what the claim says lookup returns for a body of the system
Expected(sys, id, stamp) ==
    IF id = sys.id THEN Some([pv |-> PVZero, parent |-> None, system |-> sys])
    ELSE LET e == CHOOSE x \in Edges(sys) : x.child.id = id
         IN  Some([pv |-> SumAt(PathOrbits(sys, id), stamp),
                   parent |-> Some(e.parent), system |-> e.child])

\* C21 as claimed: lookup(id, t) returns a zero state and parent None for
\* the root, and for any other body of the tree the sum of the orbit states
\* at t on the path from the root, its immediate parent and its subtree.
C21_LookupSumsPath ==
    (fn.op = "lookup" /\ fn.done /\ fn.id \in Bodies(fn.sys)) =>
        fn.ret = Expected(fn.sys, fn.id, fn.stamp)

\* C21, amended: the above holds for the root and for every body such that
\* all orbits on the path from the root can be evaluated at t; for a body
\* below an orbit that cannot be evaluated at t, lookup returns None.
C21_LookupSumsEvaluablePath ==
    (fn.op = "lookup" /\ fn.done /\ fn.id \in Bodies(fn.sys)) =>
        IF AllEvaluate(PathOrbits(fn.sys, fn.id), fn.stamp)
        THEN fn.ret = Expected(fn.sys, fn.id, fn.stamp)
        ELSE fn.ret = None

\* C21 witness: a body three levels below the root has been looked up at a
\* time after 0 and found, with a state that is not zero.
C21_Witness ==
    /\ fn.op = "lookup"
    /\ fn.done
    /\ fn.stamp > 0
    /\ fn.id \in Bodies(fn.sys)
    /\ Len(PathOrbits(fn.sys, fn.id)) = 3
    /\ fn.ret # None
    /\ Unwrap(fn.ret).pv.pos # 0
    /\ Unwrap(fn.ret).parent = Some(2)

(***************************************************************************)
(* Properties of the orbiter, continued.                                   *)
(***************************************************************************)
\* the step enters propagate_to; the step is one iteration of its loop
BeginStep == pc = "idle" /\ pc' = "loop"
IterStep == pc = "loop"

\* the bodies of the planetary system
SystemBodies == {RootId} \cup BodiesOf(RootId)

\* ps without its first k elements
Drop(ps, k) == SubSeq(ps, k + 1, Len(ps))

\* C22: when the parent of the last propagator cannot be resolved,
\* propagate_to returns Err(Lookup) from its first iteration, having
\* appended no propagator and changed no horizon (it has only pruned); and
\* lookup returns None exactly for the ids that are not in the tree.
C22_MissingLookupFails ==
    [][/\ \A id \in EntityIds, stamp \in Stamps :
              (lookup(id, stamp) = None) <=> (id \notin SystemBodies)
       /\ BeginStep => \E k \in 0..Len(props) : props' = Drop(props, k)
       /\ (IterStep /\ Last(props).parent \notin SystemBodies) =>
              /\ call.iters = 0
              /\ props' = props
              /\ pc' = "done"
              /\ call'.ret = "Lookup"
      ]_vars

\* C22 witness: propagate_to returns Err(Lookup) on an orbiter whose
\* last propagator is around an id that names no body; the propagator,
\* made after time 0, is as it was made.
C22_Witness ==
    /\ pc = "done"
    /\ call.op = "propagate_to"
    /\ call.ret = "Lookup"
    /\ Last(props).parent \notin SystemBodies
    /\ Last(props).horizon = Continuing(Last(props).start)
    /\ Last(props).start > 0

\* the propagator propagate_to appends when next_prop fails: it starts at
\* the end of the transition and terminates there in NumericalError
Flagged(p) == p.horizon = Terminating(p.start, NumericalError)

\* in an iteration of the loop, the last propagator as
\* finish_or_compute_until left it
Finished == props'[Len(props)]

\* the iteration finds a finished Transition within the horizon asked for
\* whose next_prop fails
NextPropFails ==
    /\ IterStep
    /\ Len(props') >= Len(props)
    /\ Finished.horizon.kind = "Transition"
    /\ Finished.horizon.end <= call.t
    /\ ~next_prop(Finished).ok

\* C25: when next_prop fails after a finished Transition, propagate_to
\* appends exactly one propagator, which starts at the transition's end
\* with horizon Terminating(end, NumericalError), and returns Ok(()); every
\* later step of propagate_to (pruning or an iteration) leaves that last
\* propagator of the chain unchanged.
C25_FailedTransitionFlagged ==
    [][ /\ NextPropFails =>
            /\ Len(props') = Len(props) + 1
            /\ SubSeq(props', 1, Len(props) - 1) = SubSeq(props, 1, Len(props) - 1)
            /\ Last(props').start = Finished.horizon.end
            /\ Last(props').horizon =
                   Terminating(Finished.horizon.end, NumericalError)
            /\ Last(props').parent = Finished.parent
            /\ pc' = "done"
            /\ call'.ret = "Ok"
        /\ ((BeginStep \/ IterStep) /\ Len(props) >= 2 /\ Flagged(Last(props))
                /\ props[Len(props) - 1].horizon.kind = "Transition") =>
            Last(props') = Last(props)
      ]_vars

\* C25 witness: propagate_to has returned Ok with a chain whose last
\* propagator is the flagged one, appended after a Transition that ends
\* where it starts.
C25_Witness ==
    /\ Propagated
    /\ call.ret = "Ok"
    /\ Len(props) >= 2
    /\ props[Len(props) - 1].horizon.kind = "Transition"
    /\ ~next_prop(props[Len(props) - 1]).ok
    /\ Flagged(Last(props))
    /\ Last(props).start = props[Len(props) - 1].horizon.end

\* C26: the propagator chain is never empty: after Orbiter::new and any
\* sequence of propagate_to and impulsive_burn calls, at every point of
\* them, the chain holds at least one propagator, so that simulate finds a
\* last propagator to build a RemovalInfo from.
C26_ChainNeverEmpty ==
    /\ Len(props) >= 1
    /\ removal_info(props, call.stamp) # None

\* C26 witness: a burn has spent fuel and replaced the chain, and a later
\* propagate_to has returned with a chain of one propagator on which no
\* propagator is active at the time asked for.
C26_Witness ==
    /\ Propagated
    /\ fuel < added * GramsPerKg
    /\ Len(props) = 1
    /\ propagator_at(props, call.stamp) = None

\* C27: a failed burn has no effect: whenever impulsive_burn returns None
\* (not enough delta-v, no active propagator, the state cannot be
\* evaluated, or the new orbit is degenerate), the fuel and the chain are
\* as they were before the call.
C27_FailedBurnNoEffect ==
    [][(BurnStep /\ call'.ret = "None") => (fuel' = fuel /\ props' = props)]_vars

\* The part of C27 the code keeps: a failed burn leaves the chain alone,
\* and leaves the fuel alone when the delta-v asked for is more than the
\* orbiter has.
FailedBurnKeepsChain ==
    [][(BurnStep /\ call'.ret = "None") =>
          /\ props' = props
          /\ exceeds_remaining_dv(fuel, call'.dv) => fuel' = fuel]_vars

(***************************************************************************)
(* lookup_ta_from_ma (orbital_luts.rs).  Angles are integers, a full turn  *)
(* being TwoPi = (N_SAMPLES - 1) * MaGrain units, so that the sample       *)
(* positions are whole; an eccentricity is given as ecc * 100 in           *)
(* EccGrain-ths.  The result is kept exactly, as a multiple of             *)
(* 1 / (MaGrain * EccGrain) of a unit; floating-point rounding is not      *)
(* modelled.  DenseOrbit samples SparseOrbit (orbits.rs, not among the     *)
(* source files): the table rows are samples of `center`, a stand-in for   *)
(* the solution of Kepler's equation that has its symmetries.              *)
(***************************************************************************)
ECCENTRICITY_STEP == 1
N_SAMPLES == 500
\* the largest key of BIG_ORBITS
MaxTableEcc == 93
\* the largest u8
U8Max == 255

MaGrain == 4
EccGrain == 2
TwoPi == (N_SAMPLES - 1) * MaGrain
Pi == TwoPi \div 2
\* 1e-2 rad, in units (rounded down)
Tolerance == 3
\* eccentricities are drawn from 0 to MaxEcc100 / 100
MaxEcc100 == 260

\* fmod(a, n) = a - n * (a / n).floor()
fmod(a, n) == a - n * (a \div n)

\* lerp_f64(a, b, t) with t = num / den, times den
lerp_f64(a, b, num, den) == a * den + (b - a) * num

\* `x as u8` for a float of whole part x: the cast saturates
as_u8(x) == IF x < 0 THEN 0 ELSE IF x > U8Max THEN U8Max ELSE x

\* the true anomaly minus the mean anomaly `m` (0..TwoPi) on an orbit of
\* eccentricity e200 / 200: zero at 0, Pi and TwoPi, odd about Pi, and
\* small enough for m + center to increase with m
center(e200, m) ==
    LET sin500(x) == (16 * x * (Pi - x) * 500) \div (5 * Pi * Pi - 4 * x * (Pi - x))
        half(x) == (e200 * 4 * sin500(x)) \div 2500
    IN  IF m <= Pi THEN half(m) ELSE 0 - half(TwoPi - m)

\* get_orbit_with_ecc(e / 100)[i]: sample i of the row of BIG_ORBITS for key e
get_orbit_with_ecc(e, i) == center(2 * e, i * MaGrain)

\* BIG_ORBITS.get(&e): the key of the row, if there is one
BIG_ORBITS_get(e) == IF e \in 0..MaxTableEcc THEN Some(e) ELSE None

\* faulty variant of lookup_ta_from_ma: the mean anomaly is not added
lookup_ta_from_ma_offset_only(ma0, ecc, build) ==
    LET ma == fmod(ma0, TwoPi)
        ei == as_u8(ecc \div EccGrain)
        el == ei - (ei % ECCENTRICITY_STEP)
        eu == el + ECCENTRICITY_STEP
        sy == ecc - el * EccGrain
        x1 == ma \div MaGrain
        x2 == x1 + 1
        sx == ma - x1 * MaGrain
        p1 == lerp_f64(get_orbit_with_ecc(el, x1 % N_SAMPLES),
                       get_orbit_with_ecc(eu, x1 % N_SAMPLES), sy, EccGrain)
        p2 == lerp_f64(get_orbit_with_ecc(el, x2 % N_SAMPLES),
                       get_orbit_with_ecc(eu, x2 % N_SAMPLES), sy, EccGrain)
    IN  IF eu > U8Max
        THEN IF build = "debug" THEN [kind |-> "panic", v |-> 0]
             ELSE [kind |-> "None", v |-> 0]
        ELSE IF BIG_ORBITS_get(el) = None \/ BIG_ORBITS_get(eu) = None
             THEN [kind |-> "None", v |-> 0]
        ELSE [kind |-> "Some", v |-> lerp_f64(p1, p2, sx, MaGrain)]

\* lookup_ta_from_ma(ma, ecc), ecc given as ecc * 100 in EccGrain-ths;
\* the value v of Some is the result times MaGrain * EccGrain.
\* el + ECCENTRICITY_STEP overflows u8 when el is 255: the build with
\* overflow checks panics, the build without wraps to 0, and the row of
\* el is then looked for and not found
lookup_ta_from_ma(ma0, ecc, build) ==
    LET ma == fmod(ma0, TwoPi)
        ei == as_u8(ecc \div EccGrain)
        el == ei - (ei % ECCENTRICITY_STEP)
        eu == el + ECCENTRICITY_STEP
        sy == ecc - el * EccGrain
        x1 == ma \div MaGrain
        x2 == x1 + 1
        sx == ma - x1 * MaGrain
        p1 == lerp_f64(get_orbit_with_ecc(el, x1 % N_SAMPLES),
                       get_orbit_with_ecc(eu, x1 % N_SAMPLES), sy, EccGrain)
        p2 == lerp_f64(get_orbit_with_ecc(el, x2 % N_SAMPLES),
                       get_orbit_with_ecc(eu, x2 % N_SAMPLES), sy, EccGrain)
    IN  IF eu > U8Max
        THEN IF build = "debug" THEN [kind |-> "panic", v |-> 0]
             ELSE [kind |-> "None", v |-> 0]
        ELSE IF BIG_ORBITS_get(el) = None \/ BIG_ORBITS_get(eu) = None
             THEN [kind |-> "None", v |-> 0]
        ELSE [kind |-> "Some", v |-> lerp_f64(p1, p2, sx, MaGrain) + ma * MaGrain * EccGrain]

\* the inputs: every eccentricity with the mean anomalies of the test and
\* some beyond a turn and below zero; every mean anomaly of a turn with
\* some eccentricities
LutEccs == 0..(MaxEcc100 * EccGrain)
LutInputs ==
    [ma : {0, 1, Pi, TwoPi - 1, TwoPi, TwoPi + Pi, 0 - 1, 0 - Pi, 7 * TwoPi + 3},
     ecc : LutEccs]
        \cup [ma : 0..TwoPi, ecc : {0, 1, 90 * EccGrain}]

LutInit ==
    /\ fn \in {[op |-> "lookup_ta_from_ma", ma |-> i.ma, ecc |-> i.ecc,
                ret |-> [kind |-> "None", v |-> 0], done |-> FALSE] : i \in LutInputs}
    /\ RestIdle

\* lookup_ta_from_ma(ma, ecc), in a build with or without overflow checks
LookupTa ==
    \E build \in {"debug", "release"} :
        /\ fn.op = "lookup_ta_from_ma"
        /\ ~fn.done
        /\ fn' = [fn EXCEPT !.ret = lookup_ta_from_ma(fn.ma, fn.ecc, build), !.done = TRUE]
        /\ UNCHANGED rest_vars

LutSpec == LutInit /\ [][LookupTa]_fn

\* the result was looked up
Looked == fn.op = "lookup_ta_from_ma" /\ fn.done

\* |a - b| <= Tolerance, for a and b in MaGrain * EccGrain-ths of a unit
Near(a, b) == Abs(a - b) <= Tolerance * MaGrain * EccGrain

\* the true anomaly of mean anomaly m (0..TwoPi) on an orbit of eccentricity
\* ecc, in MaGrain * EccGrain-ths of a unit
true_anomaly(m, ecc) == (m + center(ecc, m)) * MaGrain * EccGrain

\* the mean anomaly that a true anomaly ta converts back to
mean_anomaly(ta, ecc) ==
    CHOOSE m \in 0..TwoPi :
        /\ true_anomaly(m, ecc) >= ta
        /\ m > 0 => true_anomaly(m - 1, ecc) < ta

C30_LutNeverPanics ==
    Looked =>
        /\ fn.ret.kind # "panic"
        /\ (fn.ret.kind = "Some") <=> (fn.ecc < MaxTableEcc * EccGrain)

\* ---------------------------------------------------------------------
\* The layout tree (layout/src/layout.rs): sizes of Fit nodes.
\* Lengths are whole numbers of one unit; a node is a record of its
\* desired and calculated sizes, its style and the sequence of its
\* children.
\* ---------------------------------------------------------------------

\* The largest number of children of the root that is drawn.
MaxChildren == 2

\* Node::new's style: child_gap and padding of a node that sets neither.
default_child_gap == 10
default_padding == 10

Grow == [kind |-> "Grow", v |-> 0]
Fit == [kind |-> "Fit", v |-> 0]
Fixed(s) == [kind |-> "Fixed", v |-> s]

as_fixed(size) == IF size.kind = "Fixed" THEN Some(size.v) ELSE None
is_fit(size) == size.kind = "Fit"

Node_new(w, h) ==
    [ desired_width |-> w, desired_height |-> h,
      calculated_width |-> as_fixed(w), calculated_height |-> as_fixed(h),
      children |-> << >>,
      layout |-> "LeftToRight",
      child_gap |-> default_child_gap, padding |-> default_padding ]

Node_fit == Node_new(Fit, Fit)
down(n) == [n EXCEPT !.layout = "TopToBottom"]
with_layout(n, layout) == [n EXCEPT !.layout = layout]
with_child_gap(n, g) == [n EXCEPT !.child_gap = g]
with_padding(n, p) == [n EXCEPT !.padding = p]
tight(n) == [n EXCEPT !.padding = 0, !.child_gap = 0]
with_child(n, c) == [n EXCEPT !.children = Append(@, c)]
is_leaf(n) == n.children = << >>

fixed_dims(n) ==
    [ x |-> unwrap_or(as_fixed(n.desired_width), 0),
      y |-> unwrap_or(as_fixed(n.desired_height), 0) ]

calculated_dims(n) ==
    [ x |-> unwrap_or(n.calculated_width, 0),
      y |-> unwrap_or(n.calculated_height, 0) ]

max(a, b) == IF a >= b THEN a ELSE b

\* The loop of sum_fixed_dims from child i on, sx and sy so far.
RECURSIVE sum_fixed_dims_loop(_, _, _, _, _, _)
sum_fixed_dims_loop(layout, nodes, childgap, i, sx, sy) ==
    IF i > Len(nodes) THEN [x |-> sx, y |-> sy]
    ELSE LET dims == fixed_dims(nodes[i])
         IN  IF layout = "LeftToRight"
             THEN sum_fixed_dims_loop(layout, nodes, childgap, i + 1,
                                      sx + dims.x + childgap, max(sy, dims.y))
             ELSE sum_fixed_dims_loop(layout, nodes, childgap, i + 1,
                                      max(sx, dims.x), sy + dims.y + childgap)

sum_fixed_dims(layout, nodes, padding, childgap) ==
    LET s == sum_fixed_dims_loop(layout, nodes, childgap, 1, 0, 0)
        sx == IF s.x > 0 /\ layout = "LeftToRight" THEN s.x - childgap ELSE s.x
        sy == IF s.y > 0 /\ layout = "TopToBottom" THEN s.y - childgap ELSE s.y
    IN  [x |-> sx + padding * 2, y |-> sy + padding * 2]

RECURSIVE populate_fit_sizes(_)
populate_fit_sizes(root) ==
    IF is_leaf(root)
    THEN [root EXCEPT
            !.calculated_width = IF is_fit(root.desired_width) THEN Some(0) ELSE @,
            !.calculated_height = IF is_fit(root.desired_height) THEN Some(0) ELSE @]
    ELSE LET children == [i \in 1..Len(root.children) |->
                              populate_fit_sizes(root.children[i])]
             dims == sum_fixed_dims(root.layout, children,
                                    root.padding, root.child_gap)
         IN  [root EXCEPT
                !.children = children,
                !.calculated_width = IF is_fit(root.desired_width) THEN Some(dims.x) ELSE @,
                !.calculated_height = IF is_fit(root.desired_height) THEN Some(dims.y) ELSE @]

\* The nodes the layouts are built of: leaves of fixed, Fit and Grow
\* sizes, and nodes of one child.
LeafNodes ==
    {Node_new(w, h) : w \in {Fixed(3), Grow, Fit}, h \in {Fixed(4), Fixed(7), Fit}}

InnerNodes ==
    { with_child(IF t THEN tight(n) ELSE down(n), c) :
        t \in BOOLEAN,
        n \in {Node_fit, Node_new(Fixed(6), Fit)},
        c \in {Node_new(Fixed(3), Fixed(4)), Node_fit} }

ChildNodes == LeafNodes \cup InnerNodes

ChildLists == UNION {[1..n -> ChildNodes] : n \in 1..MaxChildren}

RootNodes ==
    { [with_padding(with_child_gap(with_layout(Node_new(s[1], s[2]), l), g), p)
          EXCEPT !.children = cs] :
        s \in {<<Fit, Fit>>, <<Fixed(9), Fit>>, <<Fit, Grow>>},
        l \in {"LeftToRight", "TopToBottom"},
        g \in {0, 1}, p \in {0, 2},
        cs \in ChildLists }

LayoutInit ==
    /\ fn \in {[op |-> "populate_fit_sizes", root |-> r, done |-> FALSE] :
                  r \in RootNodes}
    /\ RestIdle

PopulateFitSizes ==
    /\ fn.op = "populate_fit_sizes"
    /\ ~fn.done
    /\ fn' = [fn EXCEPT !.root = populate_fit_sizes(fn.root), !.done = TRUE]
    /\ UNCHANGED rest_vars

LayoutSpec == LayoutInit /\ [][PopulateFitSizes]_fn

\* ---------------------------------------------------------------------
\* Properties of the layout tree
\* ---------------------------------------------------------------------

Populated == fn.op = "populate_fit_sizes" /\ fn.done /\ ~is_leaf(fn.root)

RECURSIVE SumOf(_, _)
SumOf(f, n) == IF n = 0 THEN 0 ELSE f[n] + SumOf(f, n - 1)

RECURSIVE MaxOf(_, _)
MaxOf(f, n) == IF n = 0 THEN 0 ELSE max(f[n], MaxOf(f, n - 1))

\* What encloses the children whose sizes are dims: along the layout
\* direction their sum, the gaps between them and the padding on both
\* sides; across it the largest of them and the padding.
Enclosing(root, dims) ==
    LET n == Len(dims)
        xs == [i \in 1..n |-> dims[i].x]
        ys == [i \in 1..n |-> dims[i].y]
        along(f) == SumOf(f, n) + (n - 1) * root.child_gap + 2 * root.padding
        across(f) == MaxOf(f, n) + 2 * root.padding
    IN  IF root.layout = "LeftToRight"
        THEN [x |-> along(xs), y |-> across(ys)]
        ELSE [x |-> across(xs), y |-> along(ys)]

FitsAround(root, dims) ==
    /\ is_fit(root.desired_width) =>
           root.calculated_width = Some(Enclosing(root, dims).x)
    /\ is_fit(root.desired_height) =>
           root.calculated_height = Some(Enclosing(root, dims).y)

\* C24: after populate_fit_sizes a Fit-sized node encloses its children:
\* its size along its layout direction is the sum of its children's sizes,
\* one child_gap between consecutive children and twice its padding, and
\* across it the largest child and twice its padding.
C24_FitEnclosesChildren ==
    Populated =>
        FitsAround(fn.root, [i \in 1..Len(fn.root.children) |->
                                calculated_dims(fn.root.children[i])])

\* What the code does: the same with each child's fixed size, which is 0
\* for a child that is itself Fit or Grow, whatever its calculated size.
FitEnclosesFixedDims ==
    Populated =>
        FitsAround(fn.root, [i \in 1..Len(fn.root.children) |->
                                fixed_dims(fn.root.children[i])])

(***************************************************************************)
(* The entity ids of the Universe (universe.rs).  Of each of the three     *)
(* maps only the set of its keys is kept.  fn holds the Universe, the ids  *)
(* handed out so far in the order of their creation, and for each removed  *)
(* entity how many ids had been handed out when it was removed.            *)
(***************************************************************************)

\* The largest number of entities created in a run.
MaxCreated == 7

\* Universe::new: the first id handed out.
FirstEntityId == 1002

\* the numbers of landing sites Universe::new generates
InitSites == {3, 4}

EntityKinds == {"landing_sites", "orbital_vehicles", "surface_vehicles"}

\* faulty variant of Universe_next_entity_id: the counter is not advanced
Universe_next_entity_id_kept(u) == [ret |-> u.next_entity_id, universe |-> u]

\* Universe::next_entity_id(): the id returned and the Universe after it
Universe_next_entity_id(u) ==
    [ret |-> u.next_entity_id,
     universe |-> [u EXCEPT !.next_entity_id = @ + 1]]

\* add_landing_site, add_orbital_vehicle and add_surface_vehicle: each takes
\* the next id and inserts the new entity under it in its map
Universe_add(u, kind) ==
    LET r == Universe_next_entity_id(u)
    IN  [id |-> r.ret, universe |-> [r.universe EXCEPT ![kind] = @ \cup {r.ret}]]

\* the creation as seen by the record of the ids handed out
Create(e, kind) ==
    LET r == Universe_add(e.universe, kind)
    IN  [e EXCEPT !.universe = r.universe,
                  !.created = Append(@, [id |-> r.id, kind |-> kind])]

RECURSIVE Universe_new_sites(_)
\* Universe::new(planets): the empty maps, then add_landing_site for each of
\* the n landing sites generated
Universe_new_sites(n) ==
    IF n = 0
    THEN [op |-> "Universe",
          universe |-> [next_entity_id |-> FirstEntityId, landing_sites |-> {},
                        orbital_vehicles |-> {}, surface_vehicles |-> {}],
          created |-> << >>, removed |-> {}]
    ELSE Create(Universe_new_sites(n - 1), "landing_sites")

EntityInit ==
    /\ fn \in {Universe_new_sites(n) : n \in InitSites}
    /\ RestIdle

\* add_landing_site(name, surface, planet, angle)
CreateLandingSite ==
    /\ fn.op = "Universe"
    /\ Len(fn.created) < MaxCreated
    /\ fn' = Create(fn, "landing_sites")
    /\ UNCHANGED rest_vars

\* add_orbital_vehicle(vehicle, orbit)
CreateOrbitalVehicle ==
    /\ fn.op = "Universe"
    /\ Len(fn.created) < MaxCreated
    /\ fn' = Create(fn, "orbital_vehicles")
    /\ UNCHANGED rest_vars

\* add_surface_vehicle(surface_id, vehicle, pos)
CreateSurfaceVehicle ==
    /\ fn.op = "Universe"
    /\ Len(fn.created) < MaxCreated
    /\ fn' = Create(fn, "surface_vehicles")
    /\ UNCHANGED rest_vars

\* an orbital vehicle is removed: by simulate's retain, or by
\* delete_orbiter
RemoveOrbitalVehicle ==
    \E id \in fn.universe.orbital_vehicles :
        /\ fn.op = "Universe"
        /\ fn' = [fn EXCEPT !.universe.orbital_vehicles = @ \ {id},
                            !.removed = @ \cup {[id |-> id, at |-> Len(fn.created)]}]
        /\ UNCHANGED rest_vars

EntityNext ==
    \/ CreateLandingSite
    \/ CreateOrbitalVehicle
    \/ CreateSurfaceVehicle
    \/ RemoveOrbitalVehicle

EntitySpec == EntityInit /\ [][EntityNext]_fn

(***************************************************************************)
(* Properties of the entity ids.                                           *)
(***************************************************************************)
\* the ids handed out to the entities of a map
CreatedIn(kind) ==
    {fn.created[i].id : i \in {j \in DOMAIN fn.created : fn.created[j].kind = kind}}

\* C29: the entity ids the Universe assigns to landing sites, orbital
\* vehicles and surface vehicles are pairwise distinct and strictly
\* increasing in the order of creation across the three maps, and the id of
\* a removed entity is never assigned again.
C29_IdsDistinctIncreasing ==
    fn.op = "Universe" =>
        /\ \A i, j \in DOMAIN fn.created :
               i < j => fn.created[i].id < fn.created[j].id
        /\ \A k \in EntityKinds : fn.universe[k] \subseteq CreatedIn(k)
        /\ \A k, l \in EntityKinds :
               k # l => fn.universe[k] \cap fn.universe[l] = {}
        /\ \A r \in fn.removed :
               /\ r.id \notin fn.universe.landing_sites
                              \cup fn.universe.orbital_vehicles
                              \cup fn.universe.surface_vehicles
               /\ \A i \in DOMAIN fn.created :
                      i > r.at => fn.created[i].id # r.id

\* C29 witness: an orbital vehicle has been removed, an entity of each
\* other kind has been created after the removal, and each map holds an
\* entity.
C29_Witness ==
    /\ fn.op = "Universe"
    /\ \E r \in fn.removed :
           /\ r.at + 2 <= Len(fn.created)
           /\ fn.created[r.at + 1].kind = "surface_vehicles"
           /\ fn.created[r.at + 2].kind = "orbital_vehicles"
    /\ \A k \in EntityKinds : fn.universe[k] # {}
====
